---- MODULE Spec2Model ----
\* Descriptor builders of the watcher code generator: the query builder
\* (class Indexer of the codegen package) and the entity builder (class Entity),
\* with the parts of the indexer template that read the descriptors.
EXTENDS Integers, Sequences, FiniteSets, TLC

VARIABLES
    queries,                          \* Indexer._queries
    subgraphEntities,                 \* Indexer._subgraphEntities
    hasStateVariableElementaryType,   \* Indexer._hasStateVariableElementaryType
    hasStateVariableMappingType,      \* Indexer._hasStateVariableMappingType
    indexerOut,                       \* what the latest exportIndexer call wrote to its stream
    entities,                         \* Entity._entities
    entityOut,                        \* the files the latest exportEntities call wrote
    last,                             \* the last call made on a builder, and how it ended
    codec,                            \* a block header, its encoding and what is decoded from it
    store,                            \* the database and the upstream node of a generated watcher
    procs,                            \* the calls in progress on a watcher: position and locals
    trace                             \* the operations the calls have made on their collaborators

indexerVars == <<queries, subgraphEntities, hasStateVariableElementaryType,
                 hasStateVariableMappingType, indexerOut>>
entityVars == <<entities, entityOut>>
runtimeVars == <<codec, store, procs, trace>>
builderVars == <<queries, subgraphEntities, hasStateVariableElementaryType,
                 hasStateVariableMappingType, indexerOut, entities, entityOut, last>>
vars == <<queries, subgraphEntities, hasStateVariableElementaryType,
          hasStateVariableMappingType, indexerOut, entities, entityOut, last,
          codec, store, procs, trace>>

-----------------------------------------------------------------------------
\* Bounds of the model.

\* longest query list / number of addQuery calls that add to one builder
MaxQueries == 2
\* longest list of schema entities of one builder
MaxSubgraphEntities == 2
\* number of exportEntities calls on one builder
MaxExports == 1

-----------------------------------------------------------------------------
\* JavaScript strings that the code takes apart are sequences of one-character
\* strings; strings that are only compared or extended are TLA+ strings.

LowerCaseLetters ==
    <<"a", "b", "c", "d", "e", "f", "g", "h", "i", "j", "k", "l", "m",
      "n", "o", "p", "q", "r", "s", "t", "u", "v", "w", "x", "y", "z">>

UpperCaseLetters ==
    <<"A", "B", "C", "D", "E", "F", "G", "H", "I", "J", "K", "L", "M",
      "N", "O", "P", "Q", "R", "S", "T", "U", "V", "W", "X", "Y", "Z">>

\* the letters and their other case
UpperCaseOf == [c \in {LowerCaseLetters[i] : i \in 1..26} |->
                   UpperCaseLetters[CHOOSE i \in 1..26 : LowerCaseLetters[i] = c]]
LowerCaseOf == [c \in {UpperCaseLetters[i] : i \in 1..26} |->
                   LowerCaseLetters[CHOOSE i \in 1..26 : UpperCaseLetters[i] = c]]

\* String.prototype.toUpperCase and toLowerCase on one character
CharToUpperCase(c) == IF c \in DOMAIN UpperCaseOf THEN UpperCaseOf[c] ELSE c
CharToLowerCase(c) == IF c \in DOMAIN LowerCaseOf THEN LowerCaseOf[c] ELSE c

toUpperCase(s) == [i \in 1..Len(s) |-> CharToUpperCase(s[i])]
toLowerCase(s) == [i \in 1..Len(s) |-> CharToLowerCase(s[i])]

\* s.charAt(i): the empty string when i is past the end
charAt(s, i) == IF i < Len(s) THEN <<s[i + 1]>> ELSE <<>>

\* s.slice(k): the empty string when k is past the end
slice(s, k) == IF k < Len(s) THEN SubSeq(s, k + 1, Len(s)) ELSE <<>>

\* a missing value; as a name or a GraphQL type name, the empty text
Undefined == "undefined"
NoName == <<>>

-----------------------------------------------------------------------------
\* Solidity AST type names (VariableDeclaration.typeName).

ElementaryTypeName(n) == [type |-> "ElementaryTypeName", name |-> n]
ArrayTypeName(t) == [type |-> "ArrayTypeName", baseTypeName |-> t]
Mapping(k, v) == [type |-> "Mapping", keyType |-> k, valueType |-> v]
\* a declaration without type information
NoTypeName == [type |-> Undefined]

\* an if in the place of the while: one level unwrapped
UnwrapMapping_Once(typeName) ==
    IF typeName.type = "Mapping" THEN typeName.valueType ELSE typeName

\* while (typeName.type === 'Mapping') typeName = typeName.valueType
RECURSIVE UnwrapMapping(_)
UnwrapMapping(typeName) ==
    IF typeName.type = "Mapping" THEN UnwrapMapping(typeName.valueType) ELSE typeName

\* utils/helpers: the elementary type at the bottom of an array type
RECURSIVE getBaseType(_)
getBaseType(typeName) ==
    CASE typeName.type = "ElementaryTypeName" -> typeName.name
      [] typeName.type = "ArrayTypeName" -> getBaseType(typeName.baseTypeName)
      [] OTHER -> Undefined

\* utils/helpers
isArrayType(typeName) == typeName.type = "ArrayTypeName"

\* GraphQL type names are identifiers: they are compared with the names of
\* the type definitions of a schema.
GqlString == <<"S", "t", "r", "i", "n", "g">>
GqlInt == <<"I", "n", "t">>
GqlBigInt == <<"B", "i", "g", "I", "n", "t">>
GqlBoolean == <<"B", "o", "o", "l", "e", "a", "n">>
GqlBigDecimal == <<"B", "i", "g", "D", "e", "c", "i", "m", "a", "l">>
GqlBytes == <<"B", "y", "t", "e", "s">>
GqlID == <<"I", "D">>

\* utils/type-mappings: the mapping tables
getTsForSol(solType) ==
    CASE solType = "string" -> "string"
      [] solType = "uint8" -> "number"
      [] solType = "uint256" -> "bigint"
      [] solType = "address" -> "string"
      [] solType = "bool" -> "boolean"
      [] OTHER -> Undefined

getGqlForTs(tsType) ==
    CASE tsType = "string" -> GqlString
      [] tsType = "number" -> GqlInt
      [] tsType = "bigint" -> GqlBigInt
      [] tsType = "boolean" -> GqlBoolean
      [] OTHER -> NoName

getGqlForSol(solType) ==
    IF getTsForSol(solType) = Undefined THEN NoName
    ELSE getGqlForTs(getTsForSol(solType))

getTsForGql(gqlType) ==
    CASE gqlType = GqlString -> "string"
      [] gqlType = GqlInt -> "number"
      [] gqlType = GqlBigInt -> "bigint"
      [] gqlType = GqlBoolean -> "boolean"
      [] gqlType = GqlBigDecimal -> "Decimal"
      [] gqlType = GqlBytes -> "string"
      [] gqlType = GqlID -> "string"
      [] OTHER -> Undefined

getPgForTs(tsType) ==
    CASE tsType = "string" -> "varchar"
      [] tsType = "number" -> "integer"
      [] tsType = "bigint" -> "numeric"
      [] tsType = "boolean" -> "boolean"
      [] tsType = "Decimal" -> "numeric"
      [] OTHER -> Undefined

-----------------------------------------------------------------------------
\* The query builder: class Indexer.

\* the value of an expression whose evaluation raised (a failed assert)
Throws == "<throws>"

\* one element of returnTypes: the target-language type of a return declaration
IndexerReturnType(returnParameter) ==
    LET declared == returnParameter.typeName
        typeName == UnwrapMapping(declared)
        baseType == getBaseType(typeName)
        gqlReturnType == getGqlForSol(baseType)
        tsReturnType == getTsForGql(gqlReturnType)
    IN  IF \/ declared = NoTypeName
           \/ baseType = Undefined
           \/ gqlReturnType = NoName
           \/ tsReturnType = Undefined
        THEN Throws
        ELSE IF isArrayType(typeName) THEN tsReturnType \o "[]" ELSE tsReturnType

IndexerReturnTypes(returnParameters) ==
    [i \in 1..Len(returnParameters) |-> IndexerReturnType(returnParameters[i])]

\* one element of queryObject.params: the copy of a parameter, its type rewritten
IndexerParam(param) ==
    LET gqlParamType == getGqlForSol(param.type)
        tsParamType == getTsForGql(gqlParamType)
    IN  IF gqlParamType = NoName \/ tsParamType = Undefined
        THEN [name |-> param.name, type |-> Throws]
        ELSE [name |-> param.name, type |-> tsParamType]

IndexerParams(params) == [i \in 1..Len(params) |-> IndexerParam(params[i])]

\* name with the first character after an optional underscore in upper case
IndexerCapitalizedName(name) ==
    IF charAt(name, 0) = <<"_">>
    THEN toUpperCase(charAt(name, 1)) \o slice(name, 2)
    ELSE toUpperCase(charAt(name, 0)) \o slice(name, 1)

IndexerEntityName(name) ==
    IF charAt(name, 0) = <<"_">>
    THEN <<"_">> \o IndexerCapitalizedName(name)
    ELSE IndexerCapitalizedName(name)

\* the get accessor named without the underscore prefix
IndexerGetQueryName_NoUnderscore(name) == <<"g", "e", "t">> \o IndexerCapitalizedName(name)

IndexerGetQueryName(name) ==
    IF charAt(name, 0) = <<"_">>
    THEN <<"_", "g", "e", "t">> \o IndexerCapitalizedName(name)
    ELSE <<"g", "e", "t">> \o IndexerCapitalizedName(name)

IndexerSaveQueryName(name) ==
    IF charAt(name, 0) = <<"_">>
    THEN <<"_", "s", "a", "v", "e">> \o IndexerCapitalizedName(name)
    ELSE <<"s", "a", "v", "e">> \o IndexerCapitalizedName(name)

\* the duplicate comparison made on the entity name instead of the name
IndexerHasQuery_ByEntityName(qs, name) == \E i \in 1..Len(qs) : qs[i].entityName = name

\* the duplicate comparison made without regard to letter case
IndexerHasQuery_IgnoreCase(qs, name) ==
    \E i \in 1..Len(qs) : toLowerCase(qs[i].name) = toLowerCase(name)

\* this._queries.some(query => query.name === name)
IndexerHasQuery(qs, name) == \E i \in 1..Len(qs) : qs[i].name = name

\* one of the asserts of addQuery fails
IndexerAddQueryThrows(c) ==
    \/ \E i \in 1..Len(c.returnParameters) :
          IndexerReturnType(c.returnParameters[i]) = Throws
    \/ \E i \in 1..Len(c.params) : IndexerParam(c.params[i]).type = Throws

IndexerQueryObject(c) ==
    [ name |-> c.name,
      entityName |-> IndexerEntityName(c.name),
      getQueryName |-> IndexerGetQueryName(c.name),
      saveQueryName |-> IndexerSaveQueryName(c.name),
      params |-> IndexerParams(c.params),
      returnTypes |-> IndexerReturnTypes(c.returnParameters),
      mode |-> c.mode,
      stateVariableType |-> c.stateVariableType,
      contract |-> c.contract ]

\* the switch on stateVariableType
ElementaryFlagAfter(flag, stateVariableType) ==
    IF stateVariableType = "ElementaryTypeName" THEN TRUE ELSE flag

\* the flag assigned on every call instead of set once
MappingFlagAfter_Assigned(flag, stateVariableType) == stateVariableType = "Mapping"

\* the case above falling through into this one
MappingFlagAfter_FallThrough(flag, stateVariableType) ==
    IF stateVariableType \in {"ElementaryTypeName", "Mapping"} THEN TRUE ELSE flag

MappingFlagAfter(flag, stateVariableType) ==
    IF stateVariableType = "Mapping" THEN TRUE ELSE flag

\* the parameter types rewritten on the records of the caller
IndexerCallerParams_InPlace(params) ==
    [i \in 1..Len(params) |->
        IF IndexerParam(params[i]).type = Throws THEN params[i]
        ELSE IndexerParam(params[i])]

\* the parameter records of the caller after a call of addQuery: the
\* descriptor holds _.cloneDeep(params), so they are as they were given
IndexerCallerParams(params) == params

\* how a call of Indexer.addQuery ends
IndexerAddQueryOutcome(c) ==
    IF IndexerHasQuery(queries, c.name) THEN "present"
    ELSE IF IndexerAddQueryThrows(c) THEN "throws"
    ELSE "added"

\* the flags set before the types are mapped
IndexerAddQuery_FlagsFirst(c) ==
    IF IndexerHasQuery(queries, c.name)
    THEN UNCHANGED indexerVars
    ELSE /\ hasStateVariableElementaryType' =
                ElementaryFlagAfter(hasStateVariableElementaryType, c.stateVariableType)
         /\ hasStateVariableMappingType' =
                MappingFlagAfter(hasStateVariableMappingType, c.stateVariableType)
         /\ UNCHANGED <<subgraphEntities, indexerOut>>
         /\ IF IndexerAddQueryThrows(c)
            THEN UNCHANGED queries
            ELSE /\ Len(queries) < MaxQueries
                 /\ queries' = Append(queries, IndexerQueryObject(c))

\* the new descriptor put at the head of the list
IndexerAddQuery_Unshift(c) ==
    IF IndexerHasQuery(queries, c.name) \/ IndexerAddQueryThrows(c)
    THEN UNCHANGED indexerVars
    ELSE /\ Len(queries) < MaxQueries
         /\ queries' = <<IndexerQueryObject(c)>> \o queries
         /\ hasStateVariableElementaryType' =
                ElementaryFlagAfter(hasStateVariableElementaryType, c.stateVariableType)
         /\ hasStateVariableMappingType' =
                MappingFlagAfter(hasStateVariableMappingType, c.stateVariableType)
         /\ UNCHANGED <<subgraphEntities, indexerOut>>

\* Indexer.addQuery(contract, mode, name, params, returnParameters, stateVariableType)
IndexerAddQuery(c) ==
    IF IndexerHasQuery(queries, c.name)
    THEN UNCHANGED indexerVars
    ELSE IF IndexerAddQueryThrows(c)
    THEN UNCHANGED indexerVars
    ELSE /\ Len(queries) < MaxQueries
         /\ queries' = Append(queries, IndexerQueryObject(c))
         /\ hasStateVariableElementaryType' =
                ElementaryFlagAfter(hasStateVariableElementaryType, c.stateVariableType)
         /\ hasStateVariableMappingType' =
                MappingFlagAfter(hasStateVariableMappingType, c.stateVariableType)
         /\ UNCHANGED <<subgraphEntities, indexerOut>>

-----------------------------------------------------------------------------
\* Schema documents (the parsed GraphQL schema of a subgraph).

NamedType(n) == [kind |-> "NamedType", name |-> n]
ListType(t) == [kind |-> "ListType", type |-> t]
NonNullType(t) == [kind |-> "NonNullType", type |-> t]

\* utils/subgraph: base type name, array flag and nullable flag of a field type
RECURSIVE getFieldType(_)
getFieldType(typeNode) ==
    CASE typeNode.kind = "ListType" ->
            [typeName |-> getFieldType(typeNode.type).typeName,
             array |-> TRUE, nullable |-> TRUE]
      [] typeNode.kind = "NonNullType" ->
            [typeName |-> getFieldType(typeNode.type).typeName,
             array |-> getFieldType(typeNode.type).array, nullable |-> FALSE]
      [] OTHER -> [typeName |-> typeNode.name, array |-> FALSE, nullable |-> TRUE]

IsObjectTypeDefinition(def) == def.kind = "ObjectTypeDefinition"

\* Indexer._getDerivedFrom(directives)
IndexerGetDerivedFrom(directives) ==
    LET found == SelectSeq(directives, LAMBDA d : d.name = "derivedFrom")
    IN  IF found # <<>>
        THEN [isDerived |-> TRUE, derivedFromField |-> Head(found).arguments[1]]
        ELSE [isDerived |-> FALSE, derivedFromField |-> ""]

\* the type looked up among the definitions of every kind
IndexerColumnObject_AnyKind(subgraphTypeDefs, field) ==
    LET fieldType == getFieldType(field.type)
        isRelation == \E i \in 1..Len(subgraphTypeDefs) :
                         subgraphTypeDefs[i].name = fieldType.typeName
        derived == IndexerGetDerivedFrom(field.directives)
    IN  IF ~isRelation
        THEN [name |-> field.name, type |-> fieldType.typeName,
              isRelation |-> FALSE, isArray |-> fieldType.array]
        ELSE IF derived.isDerived
        THEN [name |-> field.name, type |-> fieldType.typeName,
              isRelation |-> TRUE, isArray |-> fieldType.array,
              isDerived |-> TRUE, derivedFromField |-> derived.derivedFromField]
        ELSE [name |-> field.name, type |-> fieldType.typeName,
              isRelation |-> TRUE, isArray |-> fieldType.array,
              isDerived |-> FALSE]

\* the column object Indexer._addSubgraphColumns builds for one field
IndexerColumnObject(subgraphTypeDefs, field) ==
    LET fieldType == getFieldType(field.type)
        isRelation == \E i \in 1..Len(subgraphTypeDefs) :
                         /\ subgraphTypeDefs[i].name = fieldType.typeName
                         /\ subgraphTypeDefs[i].kind = "ObjectTypeDefinition"
        derived == IndexerGetDerivedFrom(field.directives)
    IN  IF ~isRelation
        THEN [name |-> field.name, type |-> fieldType.typeName,
              isRelation |-> FALSE, isArray |-> fieldType.array]
        ELSE IF derived.isDerived
        THEN [name |-> field.name, type |-> fieldType.typeName,
              isRelation |-> TRUE, isArray |-> fieldType.array,
              isDerived |-> TRUE, derivedFromField |-> derived.derivedFromField]
        ELSE [name |-> field.name, type |-> fieldType.typeName,
              isRelation |-> TRUE, isArray |-> fieldType.array,
              isDerived |-> FALSE]

\* Indexer._addSubgraphColumns(subgraphTypeDefs, entityObject, def)
IndexerAddSubgraphColumns(subgraphTypeDefs, def) ==
    LET columns == [i \in 1..Len(def.fields) |->
                        IndexerColumnObject(subgraphTypeDefs, def.fields[i])]
    IN  [className |-> def.name,
         columns |-> columns,
         relations |-> SelectSeq(columns, LAMBDA col : col.isRelation)]

\* the entity objects one addSubgraphEntities call pushes
IndexerSubgraphEntityObjects(subgraphTypeDefs) ==
    LET objectTypes == SelectSeq(subgraphTypeDefs, IsObjectTypeDefinition)
    IN  [i \in 1..Len(objectTypes) |->
            IndexerAddSubgraphColumns(subgraphTypeDefs, objectTypes[i])]

\* Indexer.addSubgraphEntities(subgraphSchemaDocument)
IndexerAddSubgraphEntities(doc) ==
    /\ Len(subgraphEntities) + Len(IndexerSubgraphEntityObjects(doc.definitions))
           <= MaxSubgraphEntities
    /\ subgraphEntities' =
           subgraphEntities \o IndexerSubgraphEntityObjects(doc.definitions)
    /\ UNCHANGED <<queries, hasStateVariableElementaryType,
                   hasStateVariableMappingType, indexerOut>>

\* the object exportIndexer hands to the template
IndexerTemplateObject(contracts) ==
    [ contracts |-> contracts,
      queries |-> queries,
      subgraphEntities |-> subgraphEntities,
      hasStateVariableElementaryType |-> hasStateVariableElementaryType,
      hasStateVariableMappingType |-> hasStateVariableMappingType ]

\* Indexer.exportIndexer(outStream, contracts)
IndexerExportIndexer(contracts) ==
    /\ indexerOut' = <<IndexerTemplateObject(contracts)>>
    /\ UNCHANGED <<queries, subgraphEntities, hasStateVariableElementaryType,
                   hasStateVariableMappingType>>

\* indexer template, query method, db hit: the properties of the stored entity
\* from which the returned value is built
TemplateDbHitValueColumns(query) ==
    IF Len(query.returnTypes) > 1
    THEN [i \in 1..Len(query.returnTypes) |-> "value" \o ToString(i - 1)]
    ELSE <<"value">>

-----------------------------------------------------------------------------
\* The entity builder: class Entity.

\* the text of an identifier
RECURSIVE Text(_)
Text(chars) == IF chars = <<>> THEN "" ELSE Head(chars) \o Text(Tail(chars))

\* the class name made without the underscore rule
EntityClassName_FirstCharOnly(name) == toUpperCase(charAt(name, 0)) \o slice(name, 1)

\* entityObject.className of addQuery
EntityClassName(name) ==
    IF charAt(name, 0) = <<"_">>
    THEN <<"_">> \o toUpperCase(charAt(name, 1)) \o slice(name, 2)
    ELSE toUpperCase(charAt(name, 0)) \o slice(name, 1)

\* this._entities.some(entity => entity.className.toLowerCase() === name.toLowerCase())
EntityHasQuery(es, name) ==
    \E i \in 1..Len(es) : toLowerCase(es[i].className) = toLowerCase(name)

\* the index made of the two common columns only
EntityQueryIndex_CommonOnly(params) ==
    [ columns |-> <<"blockHash", "contractAddress">>, unique |-> TRUE ]

\* the unique index of a query entity
EntityQueryIndex(params) ==
    [ columns |-> <<"blockHash", "contractAddress">>
                      \o [i \in 1..Len(params) |-> params[i].name],
      unique |-> TRUE ]

\* the four columns every query entity starts with
EntityQueryCommonColumns ==
    << [name |-> "id", tsType |-> "number", columnType |-> "PrimaryGeneratedColumn",
        columnOptions |-> <<>>],
       [name |-> "blockHash", pgType |-> "varchar", tsType |-> "string",
        columnType |-> "Column",
        columnOptions |-> <<[option |-> "length", value |-> "66"]>>],
       [name |-> "blockNumber", pgType |-> "integer", tsType |-> "number",
        columnType |-> "Column"],
       [name |-> "contractAddress", pgType |-> "varchar", tsType |-> "string",
        columnType |-> "Column",
        columnOptions |-> <<[option |-> "length", value |-> "42"]>>] >>

\* the column of one parameter; pgType is Throws when an assert fails
EntityParamColumn(param) ==
    LET gqlType == getGqlForSol(param.type)
        tsType == getTsForGql(gqlType)
        pgType == getPgForTs(tsType)
    IN  [ name |-> param.name,
          pgType |-> IF gqlType = NoName \/ tsType = Undefined \/ pgType = Undefined
                     THEN Throws ELSE pgType,
          tsType |-> tsType,
          columnType |-> "Column",
          columnOptions |-> IF param.type = "address"
                            THEN <<[option |-> "length", value |-> "42"]>>
                            ELSE <<>> ]

\* every return column named by its position
EntityReturnColumnName_Positional(count, index) == "value" \o ToString(index)

\* the name of the column of the return declaration at index (from 0) of count
EntityReturnColumnName(count, index) ==
    IF count > 1 THEN "value" \o ToString(index) ELSE "value"

\* the persisted type looked up with the type that has the array suffix
EntityReturnColumn_PgOfArrayType(returnParameters, i) ==
    LET declared == returnParameters[i].typeName
        typeName == UnwrapMapping(declared)
        baseType == getBaseType(typeName)
        gqlReturnType == getGqlForSol(baseType)
        tsReturnType == getTsForGql(gqlReturnType)
        isArray == isArrayType(typeName)
        arrayType == IF isArray THEN tsReturnType \o "[]" ELSE tsReturnType
        failed == \/ declared = NoTypeName
                  \/ baseType = Undefined
                  \/ gqlReturnType = NoName
                  \/ tsReturnType = Undefined
    IN  [ name |-> EntityReturnColumnName(Len(returnParameters), i - 1),
          pgType |-> IF failed THEN Throws
                     ELSE IF isArray THEN getPgForTs(tsReturnType) \o "[]"
                     ELSE getPgForTs(tsReturnType),
          tsType |-> arrayType,
          columnType |-> "Column",
          columnOptions |-> IF isArray
                            THEN <<[option |-> "array", value |-> "true"]>>
                            ELSE <<>> ]

\* the column of one return declaration; pgType is Throws when an assert fails
EntityReturnColumn(returnParameters, i) ==
    LET declared == returnParameters[i].typeName
        typeName == UnwrapMapping(declared)
        baseType == getBaseType(typeName)
        gqlReturnType == getGqlForSol(baseType)
        tsReturnType == getTsForGql(gqlReturnType)
        pgReturnType == getPgForTs(tsReturnType)
        isArray == isArrayType(typeName)
        failed == \/ declared = NoTypeName
                  \/ baseType = Undefined
                  \/ gqlReturnType = NoName
                  \/ tsReturnType = Undefined
                  \/ pgReturnType = Undefined
    IN  [ name |-> EntityReturnColumnName(Len(returnParameters), i - 1),
          pgType |-> IF failed THEN Throws ELSE pgReturnType,
          tsType |-> IF isArray THEN tsReturnType \o "[]" ELSE tsReturnType,
          columnType |-> "Column",
          columnOptions |-> IF isArray
                            THEN <<[option |-> "array", value |-> "true"]>>
                            ELSE <<>> ]

EntityProofColumn ==
    [ name |-> "proof", pgType |-> "text", tsType |-> "string", columnType |-> "Column",
      columnOptions |-> <<[option |-> "nullable", value |-> "true"]>> ]

\* the columns of a query entity before the transformer pass
EntityQueryColumns(params, returnParameters) ==
    EntityQueryCommonColumns
        \o [i \in 1..Len(params) |-> EntityParamColumn(params[i])]
        \o [i \in 1..Len(returnParameters) |-> EntityReturnColumn(returnParameters, i)]
        \o <<EntityProofColumn>>

\* a column after a transformer pass: the option is pushed for the scalar
\* type and for the array type
WithTransformer(column, scalarType, scalar, array) ==
    LET c1 == IF column.tsType = scalarType
              THEN [column EXCEPT !.columnOptions =
                        Append(@, [option |-> "transformer", value |-> scalar])]
              ELSE column
    IN  IF c1.tsType = scalarType \o "[]"
        THEN [c1 EXCEPT !.columnOptions =
                  Append(@, [option |-> "transformer", value |-> array])]
        ELSE c1

\* the transformer names a pass imports
TransformerImports(columns, scalarType, scalar, array) ==
    {scalar : i \in {j \in 1..Len(columns) : columns[j].tsType = scalarType}}
        \union {array : i \in {j \in 1..Len(columns) :
                                   columns[j].tsType = scalarType \o "[]"}}

\* imports with the names added to the import from '@cerc-io/util'
WithUtilImports(imports, names) ==
    IF names = {} THEN imports
    ELSE IF \E i \in 1..Len(imports) : imports[i].from = "@cerc-io/util"
    THEN [i \in 1..Len(imports) |->
             IF imports[i].from = "@cerc-io/util"
             THEN [imports[i] EXCEPT !.toImport = @ \union names]
             ELSE imports[i]]
    ELSE Append(imports, [toImport |-> names, from |-> "@cerc-io/util"])

\* the pass without its second test, the one for the array type
AddBigIntTransformerOption_ScalarOnly(entityObject) ==
    [entityObject EXCEPT
        !.columns = [i \in 1..Len(@) |->
            IF @[i].tsType = "bigint"
            THEN [@[i] EXCEPT !.columnOptions =
                      Append(@, [option |-> "transformer", value |-> "bigintTransformer"])]
            ELSE @[i]],
        !.imports = WithUtilImports(@,
            TransformerImports(entityObject.columns, "bigint",
                               "bigintTransformer", "bigintTransformer"))]

\* Entity._addBigIntTransformerOption(entityObject)
AddBigIntTransformerOption(entityObject) ==
    [entityObject EXCEPT
        !.columns = [i \in 1..Len(@) |->
            WithTransformer(@[i], "bigint", "bigintTransformer", "bigintArrayTransformer")],
        !.imports = WithUtilImports(@,
            TransformerImports(entityObject.columns, "bigint",
                               "bigintTransformer", "bigintArrayTransformer"))]

\* Entity._addDecimalTransformerOption(entityObject)
AddDecimalTransformerOption(entityObject) ==
    LET names == TransformerImports(entityObject.columns, "Decimal",
                                    "decimalTransformer", "decimalArrayTransformer")
        withUtil == WithUtilImports(entityObject.imports, names)
    IN  [entityObject EXCEPT
            !.columns = [i \in 1..Len(@) |->
                WithTransformer(@[i], "Decimal", "decimalTransformer",
                                "decimalArrayTransformer")],
            !.imports = IF names = {} THEN withUtil
                        ELSE Append(withUtil,
                                    [toImport |-> {"Decimal"}, from |-> "decimal.js"])]

\* one of the asserts of Entity.addQuery fails
EntityAddQueryThrows(c) ==
    \/ \E i \in 1..Len(c.params) : EntityParamColumn(c.params[i]).pgType = Throws
    \/ \E i \in 1..Len(c.returnParameters) :
          EntityReturnColumn(c.returnParameters, i).pgType = Throws

\* the entity object addQuery pushes
EntityQueryObject(c) ==
    AddBigIntTransformerOption(
        [ className |-> EntityClassName(c.name),
          indexOn |-> <<EntityQueryIndex(c.params)>>,
          columns |-> EntityQueryColumns(c.params, c.returnParameters),
          imports |-> <<[toImport |-> {"Entity", "PrimaryGeneratedColumn",
                                       "Column", "Index"},
                         from |-> "typeorm"]>> ])

\* the fixed tables of data/entities, each under the class name of its file
EventEntity == [className |-> <<"E", "v", "e", "n", "t">>, table |-> "Event.yaml"]
SyncStatusEntity ==
    [className |-> <<"S", "y", "n", "c", "S", "t", "a", "t", "u", "s">>,
     table |-> "SyncStatus.yaml"]
ContractEntity ==
    [className |-> <<"C", "o", "n", "t", "r", "a", "c", "t">>, table |-> "Contract.yaml"]
BlockProgressEntity ==
    [className |-> <<"B", "l", "o", "c", "k", "P", "r", "o", "g", "r", "e", "s", "s">>,
     table |-> "BlockProgress.yaml"]
StateEntity == [className |-> <<"S", "t", "a", "t", "e">>, table |-> "State.yaml"]
StateSyncStatusEntity ==
    [className |-> <<"S", "t", "a", "t", "e", "S", "y", "n", "c",
                     "S", "t", "a", "t", "u", "s">>,
     table |-> "StateSyncStatus.yaml"]
FrothyEntity ==
    [className |-> <<"F", "r", "o", "t", "h", "y", "E", "n", "t", "i", "t", "y">>,
     table |-> "FrothyEntity.yaml"]

\* the frothy entity appended whatever the subgraph path
SystemEntities_FrothyAlways(subgraphPath) ==
    <<EventEntity, SyncStatusEntity, ContractEntity, BlockProgressEntity,
      StateEntity, StateSyncStatusEntity, FrothyEntity>>

\* the entities exportEntities appends
SystemEntities(subgraphPath) ==
    <<EventEntity, SyncStatusEntity, ContractEntity, BlockProgressEntity,
      StateEntity, StateSyncStatusEntity>>
        \o (IF subgraphPath # "" THEN <<FrothyEntity>> ELSE <<>>)

SystemEntitySet ==
    {EventEntity, SyncStatusEntity, ContractEntity, BlockProgressEntity,
     StateEntity, StateSyncStatusEntity, FrothyEntity}

IsSystemEntity(entity) == entity \in SystemEntitySet

\* the entities of the list that addQuery and addSubgraphEntities pushed
BuiltEntities(es) == SelectSeq(es, LAMBDA e : ~IsSystemEntity(e))

\* how a call of Entity.addQuery ends
EntityAddQueryOutcome(c) ==
    IF EntityHasQuery(entities, c.name) THEN "present"
    ELSE IF EntityAddQueryThrows(c) THEN "throws"
    ELSE "added"

\* Entity.addQuery(name, params, returnParameters)
EntityAddQuery(c) ==
    IF EntityHasQuery(entities, c.name)
    THEN UNCHANGED entityVars
    ELSE IF EntityAddQueryThrows(c)
    THEN UNCHANGED entityVars
    ELSE /\ Len(BuiltEntities(entities)) < MaxQueries
         /\ entities' = Append(entities, EntityQueryObject(c))
         /\ UNCHANGED entityOut

\* the three columns every schema entity starts with
EntitySubgraphCommonColumns ==
    << [name |-> "id", pgType |-> "varchar", tsType |-> "string",
        columnType |-> "PrimaryColumn", columnOptions |-> <<>>],
       [name |-> "blockHash", pgType |-> "varchar", tsType |-> "string",
        columnType |-> "PrimaryColumn",
        columnOptions |-> <<[option |-> "length", value |-> "66"]>>],
       [name |-> "blockNumber", pgType |-> "integer", tsType |-> "number",
        columnType |-> "Column"] >>

EntityIsPrunedColumn ==
    [ name |-> "isPruned", pgType |-> "boolean", tsType |-> "boolean",
      columnType |-> "Column",
      columnOptions |-> <<[option |-> "default", value |-> "false"]>> ]

\* the test without the return for the field named id
EntityFieldIsColumn_KeepId(field) ==
    ~\E i \in 1..Len(field.directives) : field.directives[i].name = "derivedFrom"

\* the test without the return for a derived field
EntityFieldIsColumn_KeepDerived(field) == field.name # "id"

\* the field is one _addSubgraphColumns makes a column of
EntityFieldIsColumn(field) ==
    /\ ~\E i \in 1..Len(field.directives) : field.directives[i].name = "derivedFrom"
    /\ field.name # "id"

\* typeDef.kind === 'EnumTypeDefinition' && typeDef.name.value === typeName
IsEnumType(subgraphTypeDefs, typeName) ==
    \E i \in 1..Len(subgraphTypeDefs) :
        /\ subgraphTypeDefs[i].kind = "EnumTypeDefinition"
        /\ subgraphTypeDefs[i].name = typeName

\* the column Entity._addSubgraphColumns builds for one field it keeps
EntitySubgraphColumn(subgraphTypeDefs, field) ==
    LET name == IF field.name \in {"blockHash", "blockNumber"}
                THEN "_" \o field.name ELSE field.name
        fieldType == getFieldType(field.type)
        isEnum == IsEnumType(subgraphTypeDefs, fieldType.typeName)
        mapped == getTsForGql(fieldType.typeName)
        \* the local tsType: in the enum branch it keeps the looked-up value
        tsType == IF isEnum THEN mapped
                  ELSE IF mapped = Undefined THEN "string" ELSE mapped
        typeOptions == IF isEnum
                       THEN <<[option |-> "type", value |-> "'enum'"],
                              [option |-> "enum", value |-> Text(fieldType.typeName)]>>
                       ELSE <<>>
        arrayOptions == IF fieldType.array
                        THEN <<[option |-> "array", value |-> "true"]>> ELSE <<>>
        nullableOptions == IF fieldType.nullable
                           THEN <<[option |-> "nullable", value |-> "true"]>> ELSE <<>>
        columnTsType == IF fieldType.array THEN tsType \o "[]"
                        ELSE IF isEnum THEN Text(fieldType.typeName) ELSE tsType
        columnOptions == typeOptions \o arrayOptions \o nullableOptions
    IN  IF isEnum
        THEN [name |-> name, columnOptions |-> columnOptions, columnType |-> "Column",
              tsType |-> columnTsType]
        ELSE [name |-> name, columnOptions |-> columnOptions, columnType |-> "Column",
              tsType |-> columnTsType, pgType |-> getPgForTs(tsType)]

\* the import of enum types _addSubgraphColumns adds, as one import from '../types'
EntityEnumImports(subgraphTypeDefs, fields) ==
    LET enums == {Text(getFieldType(fields[i].type).typeName) :
                     i \in {j \in 1..Len(fields) :
                               /\ EntityFieldIsColumn(fields[j])
                               /\ IsEnumType(subgraphTypeDefs,
                                             getFieldType(fields[j].type).typeName)}}
    IN  IF enums = {} THEN <<>> ELSE <<[toImport |-> enums, from |-> "../types"]>>

\* Entity._addSubgraphColumns(subgraphTypeDefs, entityObject, def): the columns added
EntityAddSubgraphColumns(subgraphTypeDefs, def) ==
    LET kept == SelectSeq(def.fields, EntityFieldIsColumn)
    IN  [i \in 1..Len(kept) |-> EntitySubgraphColumn(subgraphTypeDefs, kept[i])]

\* the entity object addSubgraphEntities pushes for one object type
EntitySubgraphObject(subgraphTypeDefs, def) ==
    AddBigIntTransformerOption(AddDecimalTransformerOption(
        [ className |-> def.name,
          indexOn |-> <<[columns |-> <<"blockNumber">>]>>,
          columns |-> EntitySubgraphCommonColumns
                          \o EntityAddSubgraphColumns(subgraphTypeDefs, def)
                          \o <<EntityIsPrunedColumn>>,
          imports |-> <<[toImport |-> {"Entity", "PrimaryColumn", "Column", "Index"},
                         from |-> "typeorm"]>>
                          \o EntityEnumImports(subgraphTypeDefs, def.fields) ]))

EntitySubgraphObjects(subgraphTypeDefs) ==
    LET objectTypes == SelectSeq(subgraphTypeDefs, IsObjectTypeDefinition)
    IN  [i \in 1..Len(objectTypes) |->
            EntitySubgraphObject(subgraphTypeDefs, objectTypes[i])]

\* Entity.addSubgraphEntities(subgraphSchemaDocument)
EntityAddSubgraphEntities(doc) ==
    /\ Len(BuiltEntities(entities)) + Len(EntitySubgraphObjects(doc.definitions))
           <= MaxQueries + MaxSubgraphEntities
    /\ entities' = entities \o EntitySubgraphObjects(doc.definitions)
    /\ UNCHANGED entityOut

\* the files one exportEntities call writes: one per entity of the list
EntityFiles(es) == [i \in 1..Len(es) |-> [file |-> es[i].className, entity |-> es[i]]]

\* Entity.exportEntities(entityDir, subgraphPath)
EntityExportEntities(subgraphPath) ==
    /\ Len(SelectSeq(entities, LAMBDA e : e = EventEntity)) < MaxExports
    /\ entities' = entities \o SystemEntities(subgraphPath)
    /\ entityOut' = EntityFiles(entities \o SystemEntities(subgraphPath))

-----------------------------------------------------------------------------
\* The inputs of the builders.

Param(n, t) == [name |-> n, type |-> t]
VariableDeclaration(t) == [typeName |-> t]

\* the arguments of an addQuery call other than the name
BalanceOfLike ==
    [ contract |-> "ERC20", mode |-> "eth_call",
      params |-> <<Param("p0", "address")>>,
      returnParameters |-> <<VariableDeclaration(ElementaryTypeName("uint256"))>>,
      stateVariableType |-> Undefined ]
MappingVariable ==
    [ contract |-> "ERC20", mode |-> "storage",
      params |-> <<Param("key0", "address")>>,
      returnParameters |->
          <<VariableDeclaration(Mapping(ElementaryTypeName("address"),
                                        ElementaryTypeName("uint256")))>>,
      stateVariableType |-> "Mapping" ]
ElementaryVariable ==
    [ contract |-> "ERC20", mode |-> "storage",
      params |-> <<>>,
      returnParameters |-> <<VariableDeclaration(ElementaryTypeName("bool"))>>,
      stateVariableType |-> "ElementaryTypeName" ]
ArrayVariable ==
    [ contract |-> "ERC20", mode |-> "storage",
      params |-> <<>>,
      returnParameters |->
          <<VariableDeclaration(ArrayTypeName(ElementaryTypeName("uint8")))>>,
      stateVariableType |-> "ArrayTypeName" ]
TwoReturns ==
    [ contract |-> "ERC20", mode |-> "eth_call",
      params |-> <<Param("p0", "address"), Param("p1", "uint8")>>,
      returnParameters |->
          <<VariableDeclaration(ElementaryTypeName("bool")),
            VariableDeclaration(ArrayTypeName(ElementaryTypeName("uint256")))>>,
      stateVariableType |-> Undefined ]
NoReturns ==
    [ contract |-> "ERC20", mode |-> "eth_call",
      params |-> <<>>,
      returnParameters |-> <<>>,
      stateVariableType |-> Undefined ]
UntypedReturn ==
    [ contract |-> "ERC20", mode |-> "storage",
      params |-> <<>>,
      returnParameters |-> <<VariableDeclaration(NoTypeName)>>,
      stateVariableType |-> "Mapping" ]
UnmappedParam ==
    [ contract |-> "ERC20", mode |-> "eth_call",
      params |-> <<Param("p0", "tuple")>>,
      returnParameters |-> <<VariableDeclaration(ElementaryTypeName("uint256"))>>,
      stateVariableType |-> Undefined ]

Call(name, v) ==
    [ contract |-> v.contract, mode |-> v.mode, name |-> name, params |-> v.params,
      returnParameters |-> v.returnParameters,
      stateVariableType |-> v.stateVariableType ]

IndexerNames == { <<"a">>, <<"A">>, <<"_", "a", "b">> }
IndexerCalls ==
    { Call(n, v) : n \in IndexerNames,
                   v \in {BalanceOfLike, MappingVariable, ElementaryVariable,
                          ArrayVariable, UntypedReturn} }

EntityNames == { <<"a">>, <<"A">>, <<"s", "t", "a", "t", "e">> }
EntityCalls ==
    { Call(n, v) : n \in EntityNames,
                   v \in {BalanceOfLike, TwoReturns, UnmappedParam} }

PairNames == { <<"a">>, <<"A">>, <<"a", "b">>, <<"_", "a", "b">>, <<"_">> }
PairCalls ==
    { Call(n, v) : n \in PairNames,
                   v \in {BalanceOfLike, TwoReturns, NoReturns, UntypedReturn} }

RunNames == { <<"a">>, <<"A">>, <<"_", "a", "b">> }
RunCalls == { Call(n, v) : n \in RunNames, v \in {BalanceOfLike, MappingVariable} }

\* calls that exercise the type mapping
SolTypes == { "string", "uint8", "uint256", "address", "bool" }
AddressKey == ElementaryTypeName("address")

\* a parameter of type t, a return declaration of type t and one of type t[]
ScalarAndArray(t) ==
    [ contract |-> "ERC20", mode |-> "eth_call",
      params |-> <<Param("p0", t)>>,
      returnParameters |-> <<VariableDeclaration(ElementaryTypeName(t)),
                             VariableDeclaration(ArrayTypeName(ElementaryTypeName(t)))>>,
      stateVariableType |-> Undefined ]
\* a mapping nested to depth 1, 2 or 3 beside a declaration of its innermost type
NestedOnce ==
    [ contract |-> "ERC20", mode |-> "storage",
      params |-> <<Param("key0", "address")>>,
      returnParameters |->
          <<VariableDeclaration(Mapping(AddressKey, ElementaryTypeName("bool"))),
            VariableDeclaration(ElementaryTypeName("bool"))>>,
      stateVariableType |-> "Mapping" ]
NestedTwice ==
    [ contract |-> "ERC20", mode |-> "storage",
      params |-> <<Param("key0", "address"), Param("key1", "address")>>,
      returnParameters |->
          <<VariableDeclaration(
                Mapping(AddressKey, Mapping(AddressKey, ElementaryTypeName("uint256")))),
            VariableDeclaration(ElementaryTypeName("uint256"))>>,
      stateVariableType |-> "Mapping" ]
NestedThrice ==
    [ contract |-> "ERC20", mode |-> "storage",
      params |-> <<Param("key0", "address"), Param("key1", "uint8"),
                   Param("key2", "uint256")>>,
      returnParameters |->
          <<VariableDeclaration(
                Mapping(AddressKey, Mapping(ElementaryTypeName("uint8"),
                    Mapping(ElementaryTypeName("uint256"),
                            ArrayTypeName(ElementaryTypeName("uint8")))))),
            VariableDeclaration(ArrayTypeName(ElementaryTypeName("uint8")))>>,
      stateVariableType |-> "Mapping" ]
\* calls with a fatal condition
UnmappedReturn ==
    [ contract |-> "ERC20", mode |-> "storage",
      params |-> <<>>,
      returnParameters |-> <<VariableDeclaration(ElementaryTypeName("tuple"))>>,
      stateVariableType |-> "ElementaryTypeName" ]
UnmappedArrayReturn ==
    [ contract |-> "ERC20", mode |-> "eth_call",
      params |-> <<Param("p0", "uint256")>>,
      returnParameters |->
          <<VariableDeclaration(ElementaryTypeName("uint256")),
            VariableDeclaration(ArrayTypeName(ElementaryTypeName("tuple")))>>,
      stateVariableType |-> Undefined ]
StructReturn ==
    [ contract |-> "ERC20", mode |-> "storage",
      params |-> <<Param("key0", "uint256")>>,
      returnParameters |->
          <<VariableDeclaration(Mapping(ElementaryTypeName("uint256"),
                                        [type |-> "UserDefinedTypeName"]))>>,
      stateVariableType |-> "Mapping" ]
UnmappedSecondParam ==
    [ contract |-> "ERC20", mode |-> "storage",
      params |-> <<Param("p0", "uint8"), Param("p1", "tuple")>>,
      returnParameters |-> <<VariableDeclaration(ElementaryTypeName("bool"))>>,
      stateVariableType |-> "ElementaryTypeName" ]

TypeNames == { <<"a">>, <<"b">> }
TypeCalls ==
    { Call(n, v) : n \in TypeNames,
                   v \in {ScalarAndArray(t) : t \in SolTypes}
                        \union {NestedOnce, NestedTwice, NestedThrice}
                        \union {UntypedReturn, UnmappedReturn, UnmappedArrayReturn,
                                StructReturn, UnmappedSecondParam} }
        \union { Call(<<"_", "c">>, v) : v \in {NestedTwice, UnmappedReturn} }

\* schema documents
Field(n, t, ds) == [name |-> n, type |-> t, directives |-> ds]
DerivedFrom(f) == [name |-> "derivedFrom", arguments |-> <<f>>]
TypeA == <<"A">>
TypeT == <<"T">>
EnumK == <<"K">>

TypeU == <<"U">>
TypeV == <<"V">>

EnumKDefinition == [kind |-> "EnumTypeDefinition", name |-> EnumK, fields |-> <<>>]
InterfaceUDefinition ==
    [ kind |-> "InterfaceTypeDefinition", name |-> TypeU,
      fields |-> << Field("id", NonNullType(NamedType(GqlID)), <<>>) >> ]
ObjectADefinition ==
    [ kind |-> "ObjectTypeDefinition", name |-> TypeA,
      fields |-> << Field("id", NonNullType(NamedType(GqlID)), <<>>),
                    Field("tokens",
                          NonNullType(ListType(NonNullType(NamedType(TypeT)))),
                          <<DerivedFrom("owner")>>),
                    Field("blockNumber", NonNullType(NamedType(GqlBigInt)), <<>>),
                    Field("kind", NamedType(EnumK), <<>>),
                    Field("kinds",
                          NonNullType(ListType(NonNullType(NamedType(EnumK)))),
                          <<>>),
                    Field("best", NamedType(TypeT), <<DerivedFrom("winner")>>) >> ]
ObjectTDefinition ==
    [ kind |-> "ObjectTypeDefinition", name |-> TypeT,
      fields |-> << Field("id", NonNullType(NamedType(GqlID)), <<>>),
                    Field("owner", NonNullType(NamedType(TypeA)), <<>>),
                    Field("holders", ListType(NonNullType(NamedType(TypeA))), <<>>),
                    Field("amounts",
                          NonNullType(ListType(NonNullType(NamedType(GqlBigInt)))),
                          <<>>),
                    Field("ratio", NamedType(GqlBigDecimal), <<>>),
                    Field("blockHash", NonNullType(NamedType(GqlBytes)), <<>>),
                    Field("total", NamedType(GqlBigInt), <<DerivedFrom("amount")>>),
                    Field("kind", NonNullType(NamedType(EnumK)), <<>>),
                    Field("via", NamedType(TypeU), <<>>),
                    Field("from", NonNullType(NamedType(TypeV)), <<>>),
                    Field("vias", ListType(NonNullType(NamedType(TypeU))),
                          <<DerivedFrom("target")>>) >> ]

SchemaDocuments ==
    { [definitions |-> <<EnumKDefinition, InterfaceUDefinition,
                         ObjectADefinition, ObjectTDefinition>>],
      [definitions |-> <<EnumKDefinition>>] }

ContractLists == { <<[contractName |-> "ERC20", contractKind |-> "ERC20"]>> }
SubgraphPaths == { "", "./subgraph" }

-----------------------------------------------------------------------------
\* The builders after construction.

NoCall == [op |-> "constructor", call |-> [name |-> NoName],
           indexer |-> "-", entity |-> "-"]

Init ==
    /\ queries = <<>>
    /\ subgraphEntities = <<>>
    /\ hasStateVariableElementaryType = FALSE
    /\ hasStateVariableMappingType = FALSE
    /\ indexerOut = <<>>
    /\ entities = <<>>
    /\ entityOut = <<>>
    /\ last = NoCall
    /\ codec = <<>>
    /\ store = <<>>
    /\ procs = <<>>
    /\ trace = <<>>

\* The query builder on its own.
IndexerAddQueryCall ==
    \E c \in IndexerCalls :
        /\ IndexerAddQuery(c)
        /\ last' = [op |-> "addQuery", call |-> c,
                    indexer |-> IndexerAddQueryOutcome(c), entity |-> "-"]
        /\ UNCHANGED runtimeVars
        /\ UNCHANGED entityVars

IndexerAddSubgraphEntitiesCall ==
    \E doc \in SchemaDocuments :
        /\ IndexerAddSubgraphEntities(doc)
        /\ last' = [op |-> "addSubgraphEntities", call |-> doc,
                    indexer |-> "added", entity |-> "-"]
        /\ UNCHANGED runtimeVars
        /\ UNCHANGED entityVars

IndexerExportIndexerCall ==
    \E contracts \in ContractLists :
        /\ IndexerExportIndexer(contracts)
        /\ last' = [op |-> "exportIndexer", call |-> [contracts |-> contracts],
                    indexer |-> "written", entity |-> "-"]
        /\ UNCHANGED runtimeVars
        /\ UNCHANGED entityVars

IndexerNext ==
    \/ IndexerAddQueryCall
    \/ IndexerAddSubgraphEntitiesCall
    \/ IndexerExportIndexerCall

Spec == Init /\ [][IndexerNext]_vars

\* The entity builder on its own.
EntityAddQueryCall ==
    \E c \in EntityCalls :
        /\ EntityAddQuery(c)
        /\ last' = [op |-> "addQuery", call |-> c,
                    indexer |-> "-", entity |-> EntityAddQueryOutcome(c)]
        /\ UNCHANGED runtimeVars
        /\ UNCHANGED indexerVars

EntityAddSubgraphEntitiesCall ==
    \E doc \in SchemaDocuments :
        /\ EntityAddSubgraphEntities(doc)
        /\ last' = [op |-> "addSubgraphEntities", call |-> doc,
                    indexer |-> "-", entity |-> "added"]
        /\ UNCHANGED runtimeVars
        /\ UNCHANGED indexerVars

EntityExportEntitiesCall ==
    \E subgraphPath \in SubgraphPaths :
        /\ EntityExportEntities(subgraphPath)
        /\ last' = [op |-> "exportEntities", call |-> [subgraphPath |-> subgraphPath],
                    indexer |-> "-", entity |-> "written"]
        /\ UNCHANGED runtimeVars
        /\ UNCHANGED indexerVars

EntityNext ==
    \/ EntityAddQueryCall
    \/ EntityAddSubgraphEntitiesCall
    \/ EntityExportEntitiesCall

EntitySpec == Init /\ [][EntityNext]_vars

\* Both builders given every addQuery call, as the visitor of a contract does.
PairAddQueryCall ==
    \E c \in PairCalls :
        /\ IndexerAddQuery(c)
        /\ EntityAddQuery(c)
        /\ last' = [op |-> "addQuery", call |-> c,
                    indexer |-> IndexerAddQueryOutcome(c),
                    entity |-> EntityAddQueryOutcome(c)]
        /\ UNCHANGED runtimeVars

PairNext == PairAddQueryCall

PairSpec == Init /\ [][PairNext]_vars

\* Both builders given addQuery calls over the types of the mapping tables:
\* the query builder first, then the entity builder with the parameter
\* records the caller holds after the first call.
TypeAddQueryCall ==
    \E c \in TypeCalls :
        LET held == [c EXCEPT !.params = IndexerCallerParams(c.params)]
        IN  /\ IndexerAddQuery(c)
            /\ EntityAddQuery(held)
            /\ last' = [op |-> "addQuery", call |-> c,
                        indexer |-> IndexerAddQueryOutcome(c),
                        entity |-> EntityAddQueryOutcome(held),
                        params |-> held.params]
            /\ UNCHANGED runtimeVars

TypeNext == TypeAddQueryCall

TypeSpec == Init /\ [][TypeNext]_vars

\* One generation run: both builders given every call.
RunAddQueryCall ==
    \E c \in RunCalls :
        /\ IndexerAddQuery(c)
        /\ EntityAddQuery(c)
        /\ last' = [op |-> "addQuery", call |-> c,
                    indexer |-> IndexerAddQueryOutcome(c),
                    entity |-> EntityAddQueryOutcome(c)]
        /\ UNCHANGED runtimeVars

RunAddSubgraphEntitiesCall ==
    \E doc \in SchemaDocuments :
        /\ IndexerAddSubgraphEntities(doc)
        /\ EntityAddSubgraphEntities(doc)
        /\ last' = [op |-> "addSubgraphEntities", call |-> doc,
                    indexer |-> "added", entity |-> "added"]
        /\ UNCHANGED runtimeVars

RunExportCall ==
    \E contracts \in ContractLists, subgraphPath \in SubgraphPaths :
        /\ IndexerExportIndexer(contracts)
        /\ EntityExportEntities(subgraphPath)
        /\ last' = [op |-> "export",
                    call |-> [contracts |-> contracts, subgraphPath |-> subgraphPath],
                    indexer |-> "written", entity |-> "written"]
        /\ UNCHANGED runtimeVars

RunNext ==
    \/ RunAddQueryCall
    \/ RunAddSubgraphEntitiesCall
    \/ RunExportCall

RunSpec == Init /\ [][RunNext]_vars

-----------------------------------------------------------------------------
\* Properties of the query builder.

\* a descriptor of the query list has this name
Registered(name) == \E i \in 1..Len(queries) : queries[i].name = name

\* C1: a call of Indexer.addQuery with a name that is already registered
\* changes nothing: the query list, with every field of every descriptor, and
\* both state-variable flags are as before the call, whatever the other
\* arguments of the call are.
C1_DuplicateNameIsNoOp ==
    [][ (last'.op = "addQuery" /\ Registered(last'.call.name))
            => /\ queries' = queries
               /\ hasStateVariableElementaryType' = hasStateVariableElementaryType
               /\ hasStateVariableMappingType' = hasStateVariableMappingType ]_vars

\* a second call for a registered name has returned; it differed from the
\* first in mode and in stateVariableType, and would have set a flag
C1_Witness ==
    /\ last.op = "addQuery"
    /\ last.indexer = "present"
    /\ last.call.stateVariableType = "Mapping"
    /\ ~hasStateVariableMappingType
    /\ \E i \in 1..Len(queries) :
          /\ queries[i].name = last.call.name
          /\ queries[i].mode # last.call.mode
          /\ queries[i].stateVariableType # last.call.stateVariableType

\* C2: no two descriptors of the query list have the same name, and the
\* comparison is exact: after a call that did not raise, the name of the call
\* is registered, also when it differs from a registered name in letter case
\* only.
C2_NamesUniqueCaseSensitive ==
    /\ \A i, j \in 1..Len(queries) : queries[i].name = queries[j].name => i = j
    /\ (last.op = "addQuery" /\ last.indexer \in {"present", "added"})
           => Registered(last.call.name)

\* two names that differ in letter case only are both registered
C2_Witness ==
    /\ Len(queries) = 2
    /\ queries[1].name = <<"a">>
    /\ queries[2].name = <<"A">>
    /\ last.indexer = "added"

\* C8: both flags start false, and no call of addQuery, addSubgraphEntities
\* or exportIndexer makes a flag false that was true.
C8_FlagsMonotonic ==
    /\ ~hasStateVariableElementaryType /\ ~hasStateVariableMappingType
    /\ [][ /\ hasStateVariableElementaryType => hasStateVariableElementaryType'
           /\ hasStateVariableMappingType => hasStateVariableMappingType' ]_vars

\* the mapping flag is still true after a later addQuery call, which
\* registered a state variable of another kind
C8_Witness ==
    /\ hasStateVariableMappingType
    /\ last.op = "addQuery"
    /\ last.indexer = "added"
    /\ last.call.stateVariableType = "ElementaryTypeName"

\* C9: each flag is true exactly when the query list holds a descriptor of
\* its kind of state variable.
C9_FlagsMatchQueries ==
    /\ hasStateVariableMappingType
           <=> \E i \in 1..Len(queries) : queries[i].stateVariableType = "Mapping"
    /\ hasStateVariableElementaryType
           <=> \E i \in 1..Len(queries) :
                  queries[i].stateVariableType = "ElementaryTypeName"

\* only a mapping-typed state variable is registered: the mapping flag is
\* set, the elementary flag is not
C9_Witness ==
    /\ Len(queries) = 1
    /\ queries[1].stateVariableType = "Mapping"
    /\ hasStateVariableMappingType
    /\ ~hasStateVariableElementaryType

\* the first character of a text in upper case
Capitalized(text) ==
    IF text = <<>> THEN <<>> ELSE <<CharToUpperCase(Head(text))>> \o Tail(text)

\* C4: the three names of a descriptor follow the underscore rule: for a name
\* that begins with an underscore they are "_" + C, "_get" + C and "_save" + C
\* with C the capitalized rest of the name, otherwise C, "get" + C and
\* "save" + C with C the capitalized name.
C4_DerivedNames ==
    \A i \in 1..Len(queries) :
        LET name == queries[i].name
            underscore == name # <<>> /\ Head(name) = "_"
            C == IF underscore THEN Capitalized(Tail(name)) ELSE Capitalized(name)
        IN  /\ queries[i].entityName = (IF underscore THEN <<"_">> ELSE <<>>) \o C
            /\ queries[i].getQueryName =
                   (IF underscore THEN <<"_", "g", "e", "t">> ELSE <<"g", "e", "t">>) \o C
            /\ queries[i].saveQueryName =
                   (IF underscore THEN <<"_", "s", "a", "v", "e">>
                    ELSE <<"s", "a", "v", "e">>) \o C

\* a name with an underscore and a name without one are registered
C4_Witness ==
    /\ Len(queries) = 2
    /\ queries[1].name = <<"_", "a", "b">>
    /\ queries[1].entityName = <<"_", "A", "b">>
    /\ queries[1].getQueryName = <<"_", "g", "e", "t", "A", "b">>
    /\ queries[1].saveQueryName = <<"_", "s", "a", "v", "e", "A", "b">>
    /\ queries[2].name = <<"a", "b">>
    /\ queries[2].entityName = <<"A", "b">>
    /\ queries[2].getQueryName = <<"g", "e", "t", "A", "b">>
    /\ queries[2].saveQueryName = <<"s", "a", "v", "e", "A", "b">>

-----------------------------------------------------------------------------
\* Properties of the two builders together.

\* C3: given the same addQuery calls, the entity builder holds one entity
\* for each descriptor of the query builder: the lists are equally long and
\* the i-th entity is the one of the i-th query.
C3_OneEntityPerQuery ==
    /\ Len(entities) = Len(queries)
    /\ \A i \in 1..Len(entities) : entities[i].className = queries[i].entityName

\* C5: the class name Entity.addQuery gives the entity of a name is the
\* entity name Indexer.addQuery gives the query of that name.
C5_ClassNameIsEntityName ==
    (last.op = "addQuery" /\ last.entity = "added")
        => /\ last.indexer = "added"
           /\ queries[Len(queries)].name = last.call.name
           /\ entities[Len(entities)].className = queries[Len(queries)].entityName

\* both builders registered the name "_"
C5_Witness ==
    /\ last.op = "addQuery"
    /\ last.entity = "added"
    /\ last.call.name = <<"_">>
    /\ entities[Len(entities)].className = <<"_">>
    /\ \E i \in 1..Len(entities) : entities[i].className = <<"_", "A", "b">>

\* the names of the columns
ColumnNames(columns) == [i \in 1..Len(columns) |-> columns[i].name]

IsPrefix(old, new) == Len(old) <= Len(new) /\ SubSeq(new, 1, Len(old)) = old

\* C7: both builders only append: after any call, every descriptor of the
\* query list and of the entity list is where it was, unchanged.
C7_AppendOnly ==
    [][IsPrefix(queries, queries') /\ IsPrefix(entities, entities')]_vars

\* two queries, the entities of a schema and the system entities were added
\* one after the other
C7_Witness ==
    /\ last.op = "export"
    /\ Len(queries) = 2
    /\ Len(subgraphEntities) = 2
    /\ Len(entities) > 4
    /\ entities[1].className = queries[1].entityName
    /\ entities[2].className = queries[2].entityName
    /\ entities[3].className = subgraphEntities[1].className
    /\ entities[5] = EventEntity

-----------------------------------------------------------------------------
\* Properties of the entity builder.

\* C6: no two entities of the list have the same class name.
C6_ClassNamesUnique ==
    \A i, j \in 1..Len(entities) :
        entities[i].className = entities[j].className => i = j

-----------------------------------------------------------------------------
\* Properties of the entities of queries and of the type mapping.

\* C11: every entity Entity.addQuery made has exactly one index; the index is
\* unique, its columns are blockHash, contractAddress and the parameter names
\* in parameter order, and each of them is the name of a column of the entity.
C11_QueryEntityIndex ==
    /\ \A i \in 1..Len(entities) :
          /\ Len(entities[i].indexOn) = 1
          /\ entities[i].indexOn[1].unique = TRUE
          /\ LET index == entities[i].indexOn[1].columns
                 names == ColumnNames(entities[i].columns)
             IN  /\ Len(index) >= 2
                 /\ SubSeq(index, 1, 2) = <<"blockHash", "contractAddress">>
                 /\ SubSeq(index, 3, Len(index)) = SubSeq(names, 5, 2 + Len(index))
                 /\ \A k \in 1..Len(index) : \E j \in 1..Len(names) : names[j] = index[k]
    /\ (last.op = "addQuery" /\ last.entity = "added")
           => entities[Len(entities)].indexOn[1].columns =
                  <<"blockHash", "contractAddress">>
                      \o [k \in 1..Len(last.call.params) |-> last.call.params[k].name]

\* the entity of a query with three parameters
C11_Witness ==
    /\ last.op = "addQuery"
    /\ last.entity = "added"
    /\ Len(last.call.params) = 3
    /\ entities[Len(entities)].indexOn =
           << [ columns |-> <<"blockHash", "contractAddress", "key0", "key1", "key2">>,
                unique |-> TRUE ] >>

\* the options of a column; a column object without the property has none
OptionsOf(column) ==
    IF "columnOptions" \in DOMAIN column THEN column.columnOptions ELSE <<>>

\* the values of the transformer options of a column
TransformersOf(column) ==
    SelectSeq(OptionsOf(column), LAMBDA o : o.option = "transformer")

\* C12: a column of an entity Entity.addQuery made has a transformer option
\* exactly when its tsType is bigint, and then the option is bigintTransformer,
\* or bigint[], and then it is bigintArrayTransformer; no column has two.
C12_BigIntTransformer ==
    \A i \in 1..Len(entities) : \A j \in 1..Len(entities[i].columns) :
        LET column == entities[i].columns[j]
            found == TransformersOf(column)
        IN  /\ Len(found) <= 1
            /\ (found # <<>>) <=> column.tsType \in {"bigint", "bigint[]"}
            /\ column.tsType = "bigint" => found[1].value = "bigintTransformer"
            /\ column.tsType = "bigint[]" => found[1].value = "bigintArrayTransformer"

\* an entity with a bigint parameter, a bigint value and a bigint[] value
\* beside columns of other types
C12_Witness ==
    /\ last.op = "addQuery"
    /\ last.entity = "added"
    /\ LET columns == entities[Len(entities)].columns
       IN  /\ Len(columns) = 8
           /\ columns[5].tsType = "bigint"
           /\ columns[5].columnOptions =
                  <<[option |-> "transformer", value |-> "bigintTransformer"]>>
           /\ columns[6].tsType = "bigint"
           /\ columns[7].tsType = "bigint[]"
           /\ columns[7].columnOptions =
                  <<[option |-> "array", value |-> "true"],
                    [option |-> "transformer", value |-> "bigintArrayTransformer"]>>
           /\ TransformersOf(columns[2]) = <<>>
           /\ TransformersOf(columns[3]) = <<>>

\* the declared type is an array of the elementary type declared before it
IsArrayOf(arrayDeclaration, declaration) ==
    /\ declaration.typeName.type = "ElementaryTypeName"
    /\ arrayDeclaration.typeName = [type |-> "ArrayTypeName",
                                    baseTypeName |-> declaration.typeName]

\* a column without its name
Unnamed(column) == [f \in DOMAIN column \ {"name"} |-> column[f]]

\* C13: the columns Entity.addQuery makes of a return declaration of type X
\* and of one of type X[] have the same pgType and columnType; the tsType of
\* the second is that of the first with "[]" appended; the options of the
\* second are the array option, followed by bigintArrayTransformer where the
\* first has bigintTransformer, and the first has no other option; and the
\* returnTypes entries of the query builder are the tsTypes of the columns.
C13_ArrayAndScalar ==
    (last.op = "addQuery" /\ last.entity = "added" /\ last.indexer = "added")
        => LET n == Len(last.call.params)
               columns == entities[Len(entities)].columns
               returnTypes == queries[Len(queries)].returnTypes
               declarations == last.call.returnParameters
           IN  /\ Len(returnTypes) = Len(declarations)
               /\ \A k \in 1..Len(declarations) :
                      returnTypes[k] = columns[4 + n + k].tsType
               /\ \A k \in 1..(Len(declarations) - 1) :
                      IsArrayOf(declarations[k + 1], declarations[k])
                          => LET scalar == columns[4 + n + k]
                                 array == columns[5 + n + k]
                                 big == scalar.tsType = "bigint"
                             IN  /\ array.pgType = scalar.pgType
                                 /\ array.columnType = scalar.columnType
                                 /\ array.tsType = scalar.tsType \o "[]"
                                 /\ DOMAIN array = DOMAIN scalar
                                 /\ scalar.columnOptions =
                                        IF big
                                        THEN <<[option |-> "transformer",
                                                value |-> "bigintTransformer"]>>
                                        ELSE <<>>
                                 /\ array.columnOptions =
                                        <<[option |-> "array", value |-> "true"]>>
                                            \o (IF big
                                                THEN <<[option |-> "transformer",
                                                        value |-> "bigintArrayTransformer"]>>
                                                ELSE <<>>)

\* the columns of an address and of an array of addresses
C13_Witness ==
    /\ last.op = "addQuery"
    /\ last.entity = "added"
    /\ last.indexer = "added"
    /\ Len(last.call.returnParameters) = 2
    /\ IsArrayOf(last.call.returnParameters[2], last.call.returnParameters[1])
    /\ last.call.returnParameters[1].typeName.name = "address"
    /\ Unnamed(entities[Len(entities)].columns[6]) =
           [pgType |-> "varchar", tsType |-> "string", columnType |-> "Column",
            columnOptions |-> <<>>]
    /\ Unnamed(entities[Len(entities)].columns[7]) =
           [pgType |-> "varchar", tsType |-> "string[]", columnType |-> "Column",
            columnOptions |-> <<[option |-> "array", value |-> "true"]>>]
    /\ queries[Len(queries)].returnTypes = <<"string", "string[]">>

\* the value type at the bottom of a type of nested mappings, and the depth
RECURSIVE Innermost(_)
Innermost(typeName) ==
    IF typeName.type = "Mapping" THEN Innermost(typeName.valueType) ELSE typeName
RECURSIVE Depth(_)
Depth(typeName) ==
    IF typeName.type = "Mapping" THEN 1 + Depth(typeName.valueType) ELSE 0

\* the first return declaration of the call is a nested mapping and the
\* second declares the innermost value type of the first
NestedBesideInnermost(call) ==
    /\ Len(call.returnParameters) = 2
    /\ Depth(call.returnParameters[1].typeName) >= 1
    /\ call.returnParameters[2].typeName = Innermost(call.returnParameters[1].typeName)

\* C14: a return declaration whose type is a mapping nested to depth 1, 2 or
\* 3 is mapped, in both builders, as a declaration of its innermost value
\* type: the call does not raise, the two columns of the entity differ in
\* name only and the two returnTypes entries of the query are the same.
C14_NestedMappingUnwrapped ==
    (last.op = "addQuery" /\ NestedBesideInnermost(last.call))
        => /\ last.indexer # "throws"
           /\ last.entity # "throws"
           /\ last.indexer = "added"
                  => queries[Len(queries)].returnTypes[1] =
                         queries[Len(queries)].returnTypes[2]
           /\ last.entity = "added"
                  => LET n == Len(last.call.params)
                         columns == entities[Len(entities)].columns
                     IN  /\ columns[5 + n].name = "value0"
                         /\ columns[6 + n].name = "value1"
                         /\ Unnamed(columns[5 + n]) = Unnamed(columns[6 + n])

\* a mapping of depth 3 whose innermost value type is an array
C14_Witness ==
    /\ last.op = "addQuery"
    /\ last.indexer = "added"
    /\ last.entity = "added"
    /\ NestedBesideInnermost(last.call)
    /\ Depth(last.call.returnParameters[1].typeName) = 3
    /\ queries[Len(queries)].returnTypes = <<"number[]", "number[]">>
    /\ Unnamed(entities[Len(entities)].columns[8]) =
           [pgType |-> "integer", tsType |-> "number[]", columnType |-> "Column",
            columnOptions |-> <<[option |-> "array", value |-> "true"]>>]

\* the type is an elementary type of the tables, or an array of one
RECURSIVE Mappable(_)
Mappable(typeName) ==
    CASE typeName.type = "ElementaryTypeName" -> typeName.name \in SolTypes
      [] typeName.type = "ArrayTypeName" -> Mappable(typeName.baseTypeName)
      [] OTHER -> FALSE

\* the call has a fatal condition: a return declaration without type
\* information, or a parameter or return value of a type without mapping
FatalCall(call) ==
    \/ \E k \in 1..Len(call.returnParameters) :
          ~Mappable(Innermost(call.returnParameters[k].typeName))
    \/ \E k \in 1..Len(call.params) : call.params[k].type \notin SolTypes

\* an entity of the list has the class name of this query name, letter case
\* apart
HasEntityOf(name) ==
    \E i \in 1..Len(entities) : toLowerCase(entities[i].className) = toLowerCase(name)

\* C15: an addQuery call with a fatal condition raises in each builder that
\* does not already hold the name, and leaves the query list, the flags and
\* the entity list as they were before the call.
C15_FatalCallChangesNothing ==
    [][ (last'.op = "addQuery" /\ FatalCall(last'.call))
            => /\ last'.indexer = (IF Registered(last'.call.name)
                                   THEN "present" ELSE "throws")
               /\ last'.entity = (IF HasEntityOf(last'.call.name)
                                  THEN "present" ELSE "throws")
               /\ queries' = queries
               /\ hasStateVariableElementaryType' = hasStateVariableElementaryType
               /\ hasStateVariableMappingType' = hasStateVariableMappingType
               /\ subgraphEntities' = subgraphEntities
               /\ entities' = entities ]_vars

\* a call for a mapping-typed state variable raised in both builders after
\* another query was registered: the mapping flag is not set
C15_Witness ==
    /\ last.op = "addQuery"
    /\ last.indexer = "throws"
    /\ last.entity = "throws"
    /\ FatalCall(last.call)
    /\ last.call.stateVariableType = "Mapping"
    /\ ~hasStateVariableMappingType
    /\ Len(queries) = 1
    /\ Len(entities) = 1

\* the names of parameter records, in order
ParamNames(params) == [k \in 1..Len(params) |-> params[k].name]

\* C16: after Indexer.addQuery added a descriptor, the parameters of the
\* descriptor have the names of the given ones in the same order and
\* target-language types, the records of the caller are as they were given,
\* with their source types, and Entity.addQuery, given those records next,
\* does not raise and makes its parameter columns from the source types.
C16_ParamsRewrittenOnCopy ==
    (last.op = "addQuery" /\ last.indexer = "added")
        => LET given == last.call.params
               stored == queries[Len(queries)].params
           IN  /\ ParamNames(stored) = ParamNames(given)
               /\ \A k \in 1..Len(stored) :
                      /\ stored[k].type \in {"string", "number", "bigint", "boolean"}
                      /\ given[k].type = "address" => stored[k].type = "string"
                      /\ given[k].type = "uint8" => stored[k].type = "number"
                      /\ given[k].type = "uint256" => stored[k].type = "bigint"
               /\ last.params = given
               /\ \A k \in 1..Len(given) : given[k].type \in SolTypes
               /\ last.entity \in {"added", "present"}
               /\ last.entity = "added"
                      => \A k \in 1..Len(given) :
                             LET column == entities[Len(entities)].columns[4 + k]
                             IN  /\ column.name = given[k].name
                                 /\ column.tsType = stored[k].type
                                 /\ (given[k].type = "address")
                                        <=> (column.columnOptions =
                                                <<[option |-> "length", value |-> "42"]>>)

\* parameters of the types address, uint8 and uint256 were given to both
\* builders one after the other
C16_Witness ==
    /\ last.op = "addQuery"
    /\ last.indexer = "added"
    /\ last.entity = "added"
    /\ last.params = <<Param("key0", "address"), Param("key1", "uint8"),
                       Param("key2", "uint256")>>
    /\ queries[Len(queries)].params =
           <<Param("key0", "string"), Param("key1", "number"), Param("key2", "bigint")>>
    /\ ColumnNames(SubSeq(entities[Len(entities)].columns, 5, 7)) =
           <<"key0", "key1", "key2">>

-----------------------------------------------------------------------------
\* Properties of the entities of a schema.

\* the object type definitions of a schema document, in order
ObjectTypesOf(doc) ==
    SelectSeq(doc.definitions, LAMBDA def : def.kind = "ObjectTypeDefinition")

\* the field carries a derivedFrom annotation
HasDerivedFrom(field) ==
    \E k \in 1..Len(field.directives) : field.directives[k].name = "derivedFrom"

\* the fields of an object type that are persisted, in declaration order
PersistedFields(def) ==
    SelectSeq(def.fields, LAMBDA field : ~HasDerivedFrom(field) /\ field.name # "id")

\* the name of the column of a persisted field
PersistedName(field) ==
    CASE field.name = "blockHash" -> "_blockHash"
      [] field.name = "blockNumber" -> "_blockNumber"
      [] OTHER -> field.name

\* C17: Entity.addSubgraphEntities adds one entity for each object type of
\* the document, in order, and none for another definition; the columns of
\* the entity are id, blockHash, blockNumber, one column for each persisted
\* field in declaration order (id skipped, blockHash and blockNumber renamed
\* with an underscore), and isPruned.
C17_SchemaEntityColumns ==
    [][ last'.op = "addSubgraphEntities"
            => LET types == ObjectTypesOf(last'.call)
                   base == Len(entities)
               IN  /\ Len(entities') = base + Len(types)
                   /\ SubSeq(entities', 1, base) = entities
                   /\ \A i \in 1..Len(types) :
                          /\ entities'[base + i].className = types[i].name
                          /\ ColumnNames(entities'[base + i].columns) =
                                 <<"id", "blockHash", "blockNumber">>
                                     \o [k \in 1..Len(PersistedFields(types[i])) |->
                                            PersistedName(PersistedFields(types[i])[k])]
                                     \o <<"isPruned">> ]_vars

\* a document with an enum, an interface and two object types was added; the
\* second object type has a field named blockHash
C17_Witness ==
    /\ last.op = "addSubgraphEntities"
    /\ Len(last.call.definitions) = 4
    /\ Len(ObjectTypesOf(last.call)) = 2
    /\ entities[Len(entities) - 1].className = TypeA
    /\ ColumnNames(entities[Len(entities) - 1].columns) =
           <<"id", "blockHash", "blockNumber", "_blockNumber", "kind", "kinds",
             "isPruned">>
    /\ entities[Len(entities)].className = TypeT
    /\ ColumnNames(entities[Len(entities)].columns) =
           <<"id", "blockHash", "blockNumber", "owner", "holders", "amounts", "ratio",
             "_blockHash", "kind", "via", "from", "isPruned">>

\* the columns _addSubgraphColumns added to a schema entity: those between
\* the three common columns and isPruned
FieldColumns(entity) == SubSeq(entity.columns, 4, Len(entity.columns) - 1)

\* C18: the entity Entity.addSubgraphEntities makes of an object type has no
\* column for a field that carries a derivedFrom annotation, whether the
\* type of the field is an object type or not.
C18_DerivedFieldsNotPersisted ==
    last.op = "addSubgraphEntities"
        => LET types == ObjectTypesOf(last.call)
               base == Len(entities) - Len(types)
           IN  \A i \in 1..Len(types) : \A k \in 1..Len(types[i].fields) :
                   LET field == types[i].fields[k]
                       columns == FieldColumns(entities[base + i])
                   IN  HasDerivedFrom(field)
                           => \A j \in 1..Len(columns) :
                                  columns[j].name \notin {field.name, "_" \o field.name}

\* entities of object types with derived fields of an object type and of a
\* scalar type were added
C18_Witness ==
    /\ last.op = "addSubgraphEntities"
    /\ Len(ObjectTypesOf(last.call)) = 2
    /\ \E k \in 1..Len(ObjectTypesOf(last.call)[1].fields) :
          /\ HasDerivedFrom(ObjectTypesOf(last.call)[1].fields[k])
          /\ ObjectTypesOf(last.call)[1].fields[k].name = "tokens"
    /\ \E k \in 1..Len(ObjectTypesOf(last.call)[2].fields) :
          /\ HasDerivedFrom(ObjectTypesOf(last.call)[2].fields[k])
          /\ ObjectTypesOf(last.call)[2].fields[k].name = "total"
    /\ ColumnNames(FieldColumns(entities[Len(entities) - 1])) =
           <<"_blockNumber", "kind", "kinds">>
    /\ ColumnNames(FieldColumns(entities[Len(entities)])) =
           <<"owner", "holders", "amounts", "ratio", "_blockHash", "kind", "via", "from">>

\* the named type at the bottom of a field type, and whether a list is on
\* the way to it
RECURSIVE BaseTypeName(_)
BaseTypeName(typeNode) ==
    IF typeNode.kind = "NamedType" THEN typeNode.name ELSE BaseTypeName(typeNode.type)
RECURSIVE IsListType(_)
IsListType(typeNode) ==
    CASE typeNode.kind = "ListType" -> TRUE
      [] typeNode.kind = "NonNullType" -> IsListType(typeNode.type)
      [] OTHER -> FALSE

\* the name is the name of an object type of the document
IsObjectTypeOf(doc, name) ==
    \E k \in 1..Len(doc.definitions) :
        /\ doc.definitions[k].kind = "ObjectTypeDefinition"
        /\ doc.definitions[k].name = name

\* C19: in the entity Indexer.addSubgraphEntities makes of an object type
\* there is one column per field, and the relations are, in order, the
\* columns of the fields whose base type is an object type of the document;
\* a relation is stored (isDerived false) unless its field has a derivedFrom
\* annotation, and then it is computed (isDerived true) and derivedFromField
\* is the field argument of the annotation; isArray is the array-ness of the
\* field.
C19_Relations ==
    last.op = "addSubgraphEntities"
        => LET types == ObjectTypesOf(last.call)
               base == Len(subgraphEntities) - Len(types)
           IN  \A i \in 1..Len(types) :
                   LET fields == types[i].fields
                       entity == subgraphEntities[base + i]
                       related(k) == IsObjectTypeOf(last.call, BaseTypeName(fields[k].type))
                   IN  /\ Len(entity.columns) = Len(fields)
                       /\ entity.relations =
                              SelectSeq(entity.columns, LAMBDA column : column.isRelation)
                       /\ \A k \in 1..Len(fields) :
                              LET column == entity.columns[k]
                              IN  /\ column.name = fields[k].name
                                  /\ column.type = BaseTypeName(fields[k].type)
                                  /\ column.isArray = IsListType(fields[k].type)
                                  /\ column.isRelation = related(k)
                                  /\ related(k) =>
                                         /\ column.isDerived = HasDerivedFrom(fields[k])
                                         /\ HasDerivedFrom(fields[k]) =>
                                                column.derivedFromField =
                                                    fields[k].directives[1].arguments[1]

\* the relations of two object types: two computed ones, one of them an
\* array, and two stored ones, one of them an array; fields of an enum, of an
\* interface, of an unknown type and a derived scalar field are no relations
C19_Witness ==
    /\ last.op = "addSubgraphEntities"
    /\ Len(subgraphEntities) >= 2
    /\ subgraphEntities[Len(subgraphEntities) - 1].relations =
           << [name |-> "tokens", type |-> TypeT, isRelation |-> TRUE, isArray |-> TRUE,
               isDerived |-> TRUE, derivedFromField |-> "owner"],
              [name |-> "best", type |-> TypeT, isRelation |-> TRUE, isArray |-> FALSE,
               isDerived |-> TRUE, derivedFromField |-> "winner"] >>
    /\ subgraphEntities[Len(subgraphEntities)].relations =
           << [name |-> "owner", type |-> TypeA, isRelation |-> TRUE, isArray |-> FALSE,
               isDerived |-> FALSE],
              [name |-> "holders", type |-> TypeA, isRelation |-> TRUE, isArray |-> TRUE,
               isDerived |-> FALSE] >>
    /\ Len(subgraphEntities[Len(subgraphEntities)].columns) = 11

\* the name is the name of an enum type of the document
IsEnumTypeOf(doc, name) ==
    \E k \in 1..Len(doc.definitions) :
        /\ doc.definitions[k].kind = "EnumTypeDefinition"
        /\ doc.definitions[k].name = name

\* the options of a column with this name
OptionsNamed(column, option) ==
    SelectSeq(OptionsOf(column), LAMBDA o : o.option = option)

\* C20: the column Entity.addSubgraphEntities makes of a field of an enum
\* type has the options type 'enum' and enum <name of the enum> and no
\* pgType; its tsType is the name of the enum, with "[]" appended for an
\* array field; it has the array option exactly when the field is an array
\* and the nullable option exactly when the field is nullable, and it has no
\* transformer option.
C20_EnumColumns ==
    last.op = "addSubgraphEntities"
        => LET types == ObjectTypesOf(last.call)
               base == Len(entities) - Len(types)
           IN  \A i \in 1..Len(types) :
                   LET fields == PersistedFields(types[i])
                       columns == FieldColumns(entities[base + i])
                   IN  \A k \in 1..Len(fields) :
                           LET enum == BaseTypeName(fields[k].type)
                               array == IsListType(fields[k].type)
                               nullable == fields[k].type.kind # "NonNullType"
                           IN  IsEnumTypeOf(last.call, enum)
                                   => /\ "pgType" \notin DOMAIN columns[k]
                                      /\ OptionsNamed(columns[k], "type") =
                                             <<[option |-> "type", value |-> "'enum'"]>>
                                      /\ OptionsNamed(columns[k], "enum") =
                                             <<[option |-> "enum", value |-> Text(enum)]>>
                                      /\ (OptionsNamed(columns[k], "array") # <<>>) <=> array
                                      /\ (OptionsNamed(columns[k], "nullable") # <<>>)
                                             <=> nullable
                                      /\ TransformersOf(columns[k]) = <<>>
                                      /\ columns[k].tsType =
                                             (IF array THEN Text(enum) \o "[]"
                                              ELSE Text(enum))

-----------------------------------------------------------------------------
\* Properties of the export of the entities.

\* the class names of entities, as text
ClassNames(es) == [i \in 1..Len(es) |-> Text(es[i].className)]

\* C21: Entity.exportEntities appends, after the entities of the list, the
\* system entities Event, SyncStatus, Contract, BlockProgress, State and
\* StateSyncStatus in this order, and FrothyEntity last exactly when a
\* subgraph path is given; it renders every entity of the resulting list
\* once, in list order.
C21_ExportAppendsSystemEntities ==
    [][ last'.op = "exportEntities"
            => LET added == SubSeq(entities', Len(entities) + 1, Len(entities'))
               IN  /\ IsPrefix(entities, entities')
                   /\ ClassNames(added) =
                          <<"Event", "SyncStatus", "Contract", "BlockProgress",
                            "State", "StateSyncStatus">>
                              \o (IF last'.call.subgraphPath # ""
                                  THEN <<"FrothyEntity">> ELSE <<>>)
                   /\ Len(entityOut') = Len(entities')
                   /\ \A i \in 1..Len(entities') :
                          /\ entityOut'[i].entity = entities'[i]
                          /\ entityOut'[i].file = entities'[i].className ]_vars

\* an export without subgraph path after a query entity and a schema entity
C21_Witness ==
    /\ last.op = "exportEntities"
    /\ last.call.subgraphPath = ""
    /\ Len(entities) = 9
    /\ Len(entityOut) = 9
    /\ ~IsSystemEntity(entities[1])
    /\ ~IsSystemEntity(entities[3])
    /\ ClassNames(SubSeq(entities, 4, 9)) =
           <<"Event", "SyncStatus", "Contract", "BlockProgress", "State",
             "StateSyncStatus">>

-----------------------------------------------------------------------------
\* Properties of the names of the generated code.

\* C22: two descriptors of the query list with different names have
\* different entityName, different getQueryName and different saveQueryName.
C22_DerivedNamesDistinct ==
    \A i, j \in 1..Len(queries) :
        queries[i].name # queries[j].name
            => /\ queries[i].entityName # queries[j].entityName
               /\ queries[i].getQueryName # queries[j].getQueryName
               /\ queries[i].saveQueryName # queries[j].saveQueryName

-----------------------------------------------------------------------------
\* Properties of the two builders on a schema.

\* the column object of the query builder is marked computed
MarkedDerived(column) == "isDerived" \in DOMAIN column /\ column.isDerived = TRUE

\* C23: for every field other than id of every object type given to both
\* addSubgraphEntities operations, the query builder marks the field
\* isDerived exactly when the entity builder makes no column of it.
C23_BuildersAgreeOnComputedFields ==
    last.op = "addSubgraphEntities"
        => LET types == ObjectTypesOf(last.call)
               indexerBase == Len(subgraphEntities) - Len(types)
               entityBase == Len(entities) - Len(types)
           IN  \A i \in 1..Len(types) : \A k \in 1..Len(types[i].fields) :
                   LET field == types[i].fields[k]
                       columns == FieldColumns(entities[entityBase + i])
                       persisted == \E j \in 1..Len(columns) :
                                       columns[j].name = PersistedName(field)
                   IN  field.name # "id"
                           => (MarkedDerived(subgraphEntities[indexerBase + i].columns[k])
                                   <=> ~persisted)

-----------------------------------------------------------------------------
\* The block header codec: packages/util/src/eth.ts. Byte strings (the hex
\* strings of the code) are sequences of bytes; utils.RLP is modelled in its
\* short forms, for items and lists of at most 55 bytes.

\* an element of the decoded list that is not there (undefined)
Missing == <<-1>>
\* a bigint or number that is undefined
UndefinedInteger == -1

\* utils.hexlify of a number or bigint: its big-endian bytes, 0x00 for zero
RECURSIVE hexlify(_)
hexlify(n) == IF n < 256 THEN <<n>> ELSE hexlify(n \div 256) \o <<n % 256>>

\* BigInt(value), Number(value) of a hex string: the big-endian value
RECURSIVE ValueOfBytes(_)
ValueOfBytes(bytes) ==
    IF bytes = <<>> THEN 0
    ELSE 256 * ValueOfBytes(SubSeq(bytes, 1, Len(bytes) - 1)) + bytes[Len(bytes)]

\* utils.RLP.encode of one byte string
RLPEncodeItem(bytes) ==
    IF Len(bytes) = 1 /\ bytes[1] < 128 THEN bytes ELSE <<128 + Len(bytes)>> \o bytes

RECURSIVE RLPEncodeItems(_)
RLPEncodeItems(items) ==
    IF items = <<>> THEN <<>>
    ELSE RLPEncodeItem(Head(items)) \o RLPEncodeItems(Tail(items))

\* utils.RLP.encode of a list of byte strings
RLPEncode(items) == <<192 + Len(RLPEncodeItems(items))>> \o RLPEncodeItems(items)

\* the payload of a list is a sequence of well-formed items
RECURSIVE RLPItemsWellFormed(_)
RLPItemsWellFormed(payload) ==
    IF payload = <<>> THEN TRUE
    ELSE IF payload[1] < 128 THEN RLPItemsWellFormed(Tail(payload))
    ELSE /\ payload[1] <= 183
         /\ Len(payload) >= 1 + (payload[1] - 128)
         /\ RLPItemsWellFormed(SubSeq(payload, 2 + (payload[1] - 128), Len(payload)))

\* utils.RLP.decode does not throw
RLPWellFormed(rlp) ==
    /\ rlp # <<>>
    /\ rlp[1] >= 192
    /\ rlp[1] <= 247
    /\ Len(rlp) = 1 + (rlp[1] - 192)
    /\ RLPItemsWellFormed(Tail(rlp))

RECURSIVE RLPDecodeItems(_)
RLPDecodeItems(payload) ==
    IF payload = <<>> THEN <<>>
    ELSE IF payload[1] < 128
    THEN <<SubSeq(payload, 1, 1)>> \o RLPDecodeItems(Tail(payload))
    ELSE <<SubSeq(payload, 2, 1 + (payload[1] - 128))>>
             \o RLPDecodeItems(SubSeq(payload, 2 + (payload[1] - 128), Len(payload)))

\* utils.RLP.decode of the encoding of a list
RLPDecode(rlp) == RLPDecodeItems(Tail(rlp))

\* data[i], i from 0
ItemAt(data, i) == IF i < Len(data) THEN data[i + 1] ELSE Missing

\* decodeInteger(value, defaultValue) and decodeNumber(value, defaultValue); a
\* hex string is never of length 0
decodeInteger(value, defaultValue) ==
    IF value = Missing THEN defaultValue
    ELSE IF value = <<>> THEN 0
    ELSE ValueOfBytes(value)

decodeNumber(value, defaultValue) ==
    IF value = Missing THEN defaultValue
    ELSE IF value = <<>> THEN 0
    ELSE ValueOfBytes(value)

\* what decodeHeader returns when decoding raised
NoHeader == [undefined |-> TRUE]

\* decodeHeader(rlp)
decodeHeader(rlp) ==
    IF ~RLPWellFormed(rlp) THEN NoHeader
    ELSE LET data == RLPDecode(rlp)
             time == decodeNumber(ItemAt(data, 11), UndefinedInteger)
         IN  [ Parent |-> ItemAt(data, 0),
               UnclesDigest |-> ItemAt(data, 1),
               Beneficiary |-> ItemAt(data, 2),
               StateRoot |-> ItemAt(data, 4),
               TxRoot |-> ItemAt(data, 4),
               RctRoot |-> ItemAt(data, 5),
               Bloom |-> ItemAt(data, 6),
               Difficulty |-> decodeInteger(ItemAt(data, 7), 0),
               Number |-> decodeInteger(ItemAt(data, 8), 0),
               GasLimit |-> decodeInteger(ItemAt(data, 9), 0),
               GasUsed |-> decodeInteger(ItemAt(data, 10), 0),
               Time |-> IF time = UndefinedInteger \/ time = 0 THEN 0 ELSE time,
               Extra |-> ItemAt(data, 12),
               MixDigest |-> ItemAt(data, 13),
               Nonce |-> decodeInteger(ItemAt(data, 14), 0),
               BaseFee |-> decodeInteger(ItemAt(data, 15), UndefinedInteger) ]

\* encodeHeader(header)
encodeHeader(header) ==
    RLPEncode(
        << header.Parent, header.UnclesDigest, header.Beneficiary, header.StateRoot,
           header.TxRoot, header.RctRoot, header.Bloom,
           hexlify(header.Difficulty), hexlify(header.Number),
           hexlify(header.GasLimit), hexlify(header.GasUsed), hexlify(header.Time),
           header.Extra, header.MixDigest, hexlify(header.Nonce) >>
            \o (IF header.BaseFee # UndefinedInteger /\ header.BaseFee # 0
                THEN <<hexlify(header.BaseFee)>> ELSE <<>>))

\* headers: every field with a value of its own
Headers ==
    { [ Parent |-> <<1>>, UnclesDigest |-> <<2>>, Beneficiary |-> <<3>>,
        StateRoot |-> stateRoot, TxRoot |-> txRoot, RctRoot |-> <<6, 200>>,
        Bloom |-> <<>>, Difficulty |-> difficulty, Number |-> 9, GasLimit |-> 300,
        GasUsed |-> 11, Time |-> time, Extra |-> <<13>>, MixDigest |-> <<14>>,
        Nonce |-> 15, BaseFee |-> baseFee ] :
        stateRoot \in {<<4>>, <<5>>}, txRoot \in {<<5>>, <<129>>},
        difficulty \in {0, 8, 128}, time \in {0, 12},
        baseFee \in {UndefinedInteger, 0, 16} }

\* byte strings that are not the encoding of a list
MalformedEncodings == { <<>>, <<1>>, <<194, 1>>, <<193, 130, 1>> }

HeaderInit ==
    /\ queries = <<>>
    /\ subgraphEntities = <<>>
    /\ hasStateVariableElementaryType = FALSE
    /\ hasStateVariableMappingType = FALSE
    /\ indexerOut = <<>>
    /\ entities = <<>>
    /\ entityOut = <<>>
    /\ last = NoCall
    /\ store = <<>>
    /\ procs = <<>>
    /\ trace = <<>>
    /\ \/ \E h \in Headers :
             codec = [stage |-> "header", header |-> h, rlp |-> <<>>,
                      decoded |-> NoHeader]
       \/ \E rlp \in MalformedEncodings :
             codec = [stage |-> "encoded", header |-> NoHeader, rlp |-> rlp,
                      decoded |-> NoHeader]

EncodeHeaderCall ==
    /\ codec.stage = "header"
    /\ codec' = [codec EXCEPT !.stage = "encoded", !.rlp = encodeHeader(codec.header)]
    /\ UNCHANGED <<builderVars, store, procs, trace>>

DecodeHeaderCall ==
    /\ codec.stage = "encoded"
    /\ codec' = [codec EXCEPT !.stage = "decoded", !.decoded = decodeHeader(codec.rlp)]
    /\ UNCHANGED <<builderVars, store, procs, trace>>

HeaderNext ==
    \/ EncodeHeaderCall
    \/ DecodeHeaderCall

HeaderSpec == HeaderInit /\ [][HeaderNext]_vars

\* C24: the header decodeHeader reads from the encoding encodeHeader made of
\* a header has, in every field, the value of that field of the header.
C24_DecodeInvertsEncode ==
    (codec.stage = "decoded" /\ codec.header # NoHeader)
        => codec.decoded = codec.header

-----------------------------------------------------------------------------
\* The transactional operations of the watcher indexers: a transaction
\* runner is created, a body operation of the database runs in it, and the
\* transaction is committed or rolled back and the runner released. Every
\* operation of a collaborator may fulfil or reject.

\* the operations, and whether the call of the body operation is awaited
TransactionalOperations ==
    { [name |-> "processEvent", awaited |-> TRUE],
      [name |-> "_fetchAndSaveEvents", awaited |-> TRUE],
      [name |-> "updateStateSyncStatusIndexedBlock", awaited |-> TRUE],
      [name |-> "updateStateSyncStatusCheckpointBlock", awaited |-> TRUE],
      [name |-> "_saveBlockAndFetchEvents", awaited |-> TRUE],
      [name |-> "saveEventEntity", awaited |-> FALSE] }

Outcomes == { "fulfilled", "rejected" }

\* no call has been made
NoTransactionalCall ==
    [op |-> "-", awaited |-> TRUE, pc |-> "idle", body |-> "-", error |-> "-"]

TxInit ==
    /\ queries = <<>>
    /\ subgraphEntities = <<>>
    /\ hasStateVariableElementaryType = FALSE
    /\ hasStateVariableMappingType = FALSE
    /\ indexerOut = <<>>
    /\ entities = <<>>
    /\ entityOut = <<>>
    /\ last = NoCall
    /\ codec = <<>>
    /\ store = [transaction |-> "none", released |-> 0]
    /\ procs = NoTransactionalCall
    /\ trace = <<>>

\* const dbTx = await this._db.createTransactionRunner()
TxCreateRunner ==
    \E operation \in TransactionalOperations :
        /\ procs.pc = "idle"
        /\ procs' = [procs EXCEPT !.op = operation.name, !.awaited = operation.awaited,
                                  !.pc = "try"]
        /\ store' = [store EXCEPT !.transaction = "open"]
        /\ trace' = Append(trace, "createTransactionRunner")
        /\ UNCHANGED <<builderVars, codec>>

\* the body operation is called; with await the call is suspended until it
\* settles, without it the call goes on to the commit
TxStartBody ==
    /\ procs.pc = "try"
    /\ procs' = [procs EXCEPT !.body = "pending",
                              !.pc = IF procs.awaited THEN "awaitBody" ELSE "commit"]
    /\ trace' = Append(trace, "body")
    /\ UNCHANGED <<builderVars, codec, store>>

\* the try statement without its catch block
TxBodySettles_NoCatch ==
    \E outcome \in Outcomes :
        /\ procs.body = "pending"
        /\ procs' = [procs EXCEPT
               !.body = outcome,
               !.pc = IF procs.pc # "awaitBody" THEN @
                      ELSE IF outcome = "fulfilled" THEN "commit" ELSE "release",
               !.error = IF procs.pc = "awaitBody" /\ outcome = "rejected"
                         THEN "body" ELSE @]
        /\ trace' = Append(trace, "body " \o outcome)
        /\ UNCHANGED <<builderVars, codec, store>>

\* the body operation settles; a call suspended on it resumes in the try
\* block or in the catch block
TxBodySettles ==
    \E outcome \in Outcomes :
        /\ procs.body = "pending"
        /\ procs' = [procs EXCEPT
               !.body = outcome,
               !.pc = IF procs.pc # "awaitBody" THEN @
                      ELSE IF outcome = "fulfilled" THEN "commit" ELSE "rollback",
               !.error = IF procs.pc = "awaitBody" /\ outcome = "rejected"
                         THEN "body" ELSE @]
        /\ trace' = Append(trace, "body " \o outcome)
        /\ UNCHANGED <<builderVars, codec, store>>

\* await dbTx.commitTransaction()
TxCommit ==
    \E outcome \in Outcomes :
        /\ procs.pc = "commit"
        /\ procs' = [procs EXCEPT
               !.pc = IF outcome = "fulfilled" THEN "release" ELSE "rollback",
               !.error = IF outcome = "rejected" THEN "commitTransaction" ELSE @]
        /\ store' = [store EXCEPT
               !.transaction = IF outcome = "fulfilled" THEN "committed" ELSE @]
        /\ trace' = Append(trace, "commitTransaction")
        /\ UNCHANGED <<builderVars, codec>>

\* catch (error) { await dbTx.rollbackTransaction(); throw error; }
TxRollback ==
    \E outcome \in Outcomes :
        /\ procs.pc = "rollback"
        /\ procs' = [procs EXCEPT
               !.pc = "release",
               !.error = IF outcome = "rejected" THEN "rollbackTransaction" ELSE @]
        /\ store' = [store EXCEPT
               !.transaction = IF outcome = "fulfilled" THEN "rolledBack" ELSE @]
        /\ trace' = Append(trace, "rollbackTransaction")
        /\ UNCHANGED <<builderVars, codec>>

\* finally { await dbTx.release(); }
TxRelease ==
    \E outcome \in Outcomes :
        /\ procs.pc = "release"
        /\ procs' = [procs EXCEPT
               !.pc = "end",
               !.error = IF outcome = "rejected" THEN "release" ELSE @]
        /\ store' = [store EXCEPT !.released = @ + 1]
        /\ trace' = Append(trace, "release")
        /\ UNCHANGED <<builderVars, codec>>

\* the call ends: it throws the error of the try statement, or returns; a
\* body operation that was not awaited is returned as a promise, and the
\* call settles as that promise does
TxEnd ==
    /\ procs.pc = "end"
    /\ procs.error = "-" => procs.body # "pending"
    /\ procs' = [procs EXCEPT !.pc = "done"]
    /\ trace' = Append(trace,
                       IF procs.error # "-" THEN "throws " \o procs.error
                       ELSE IF procs.body = "rejected" THEN "throws body"
                       ELSE "returns")
    /\ UNCHANGED <<builderVars, codec, store>>

TxNext ==
    \/ TxCreateRunner
    \/ TxStartBody
    \/ TxBodySettles
    \/ TxCommit
    \/ TxRollback
    \/ TxRelease
    \/ TxEnd

TxSpec == TxInit /\ [][TxNext]_vars

\* the positions of an operation in the trace
PositionsOf(event) == {i \in 1..Len(trace) : trace[i] = event}
Occurs(event) == PositionsOf(event) # {}
\* every occurrence of the first is before every occurrence of the second
Before(first, second) ==
    \A i \in PositionsOf(first) : \A j \in PositionsOf(second) : i < j
BodySettled == Occurs("body fulfilled") \/ Occurs("body rejected")

\* C25: in saveEventEntity, commit and release happen only after the save of
\* the event has settled, and a save that fails is followed by a rollback
\* and never by a commit.
C25_CommitAfterSave ==
    procs.op = "saveEventEntity"
        => /\ \A i \in PositionsOf("commitTransaction") \union PositionsOf("release") :
                  \E j \in 1..(i - 1) : trace[j] \in {"body fulfilled", "body rejected"}
           /\ Occurs("body rejected") => ~Occurs("commitTransaction")
           /\ (Occurs("body rejected") /\ procs.pc = "done")
                  => Occurs("rollbackTransaction")

\* the operations whose body operation is awaited
AwaitedOperations ==
    { "processEvent", "_fetchAndSaveEvents", "updateStateSyncStatusIndexedBlock",
      "updateStateSyncStatusCheckpointBlock", "_saveBlockAndFetchEvents" }

\* C26 as stated: the runner is released exactly once on every exit path;
\* when the body operation fails, commit is never called, rollback is called
\* before release and the error of the body is rethrown; when the body
\* operation succeeds, commit is called and rollback is not.
C26_AsStated ==
    (procs.op \in AwaitedOperations /\ procs.pc = "done")
        => /\ Cardinality(PositionsOf("release")) = 1
           /\ Occurs("body rejected")
                  => /\ ~Occurs("commitTransaction")
                     /\ Occurs("rollbackTransaction")
                     /\ Before("rollbackTransaction", "release")
                     /\ trace[Len(trace)] = "throws body"
           /\ Occurs("body fulfilled")
                  => /\ Occurs("commitTransaction")
                     /\ ~Occurs("rollbackTransaction")

\* C26: each of the five operations releases the runner exactly once on
\* every exit path, after the body has settled and after commit and
\* rollback. When the body operation fails, commit is never called, rollback
\* is called once before release and the call throws. When the body
\* operation succeeds, commit is called once; rollback is called exactly
\* when the commit fails, once and before release, and then the call
\* throws; when the commit succeeds the call returns unless release fails.
C26_RunnerReleasedOnce ==
    procs.op \in AwaitedOperations
        => /\ Cardinality(PositionsOf("release")) <= 1
           /\ Cardinality(PositionsOf("commitTransaction")) <= 1
           /\ Cardinality(PositionsOf("rollbackTransaction")) <= 1
           /\ Before("commitTransaction", "rollbackTransaction")
           /\ Before("commitTransaction", "release")
           /\ Before("rollbackTransaction", "release")
           /\ Occurs("commitTransaction") => Occurs("body fulfilled")
           /\ Occurs("release") => BodySettled
           /\ store.transaction = "committed" => ~Occurs("rollbackTransaction")
           /\ procs.pc = "done"
                  => /\ Cardinality(PositionsOf("release")) = 1
                     /\ trace[Len(trace) - 1] = "release"
                     /\ Occurs("body rejected")
                            => /\ ~Occurs("commitTransaction")
                               /\ Occurs("rollbackTransaction")
                               /\ trace[Len(trace)] \in
                                      {"throws body", "throws rollbackTransaction",
                                       "throws release"}
                     /\ Occurs("body fulfilled")
                            => /\ Occurs("commitTransaction")
                               /\ Occurs("rollbackTransaction")
                                      <=> store.transaction # "committed"
                               /\ Occurs("rollbackTransaction")
                                      => trace[Len(trace)] \in
                                             {"throws commitTransaction",
                                              "throws rollbackTransaction",
                                              "throws release"}
                               /\ ~Occurs("rollbackTransaction")
                                      => trace[Len(trace)] \in
                                             {"returns", "throws release"}

\* a call whose body succeeded and whose commit failed: it rolled back,
\* released the runner and threw the error of the commit
C26_Witness ==
    /\ procs.op = "processEvent"
    /\ procs.pc = "done"
    /\ trace = <<"createTransactionRunner", "body", "body fulfilled",
                 "commitTransaction", "rollbackTransaction", "release",
                 "throws commitTransaction">>

-----------------------------------------------------------------------------
\* updateSyncStatusCanonicalBlock of the generated indexer. The template
\* keeps the call of pruneFrothyEntities when subgraphPath is truthy. The
\* update of the base indexer and the pruning of the graph watcher are
\* asynchronous operations on the database: each may fulfil or reject, and
\* store records the block number each of them was last applied for.

\* highest block number of a call
MaxBlockNumber == 2

NoSyncCall ==
    [pc |-> "idle", blockNumber |-> 0, force |-> FALSE,
     update |-> "-", prune |-> "-", error |-> "-"]

SyncInit ==
    /\ queries = <<>>
    /\ subgraphEntities = <<>>
    /\ hasStateVariableElementaryType = FALSE
    /\ hasStateVariableMappingType = FALSE
    /\ indexerOut = <<>>
    /\ entities = <<>>
    /\ entityOut = <<>>
    /\ last = NoCall
    /\ codec = <<>>
    /\ \E subgraphPath \in SubgraphPaths :
           store = [subgraphPath |-> subgraphPath, canonical |-> 0, pruned |-> 0]
    /\ procs = NoSyncCall
    /\ trace = <<>>

\* const syncStatus = this._baseIndexer.updateSyncStatusCanonicalBlock(...)
\* starts the update and keeps its promise; with a subgraph the next
\* statement calls pruneFrothyEntities in the same turn and awaits it
updateSyncStatusCanonicalBlock(blockNumber, force) ==
    /\ procs.pc \in {"idle", "done"}
    /\ procs.update # "pending"
    /\ procs' = [pc |-> IF store.subgraphPath # "" THEN "awaitPrune" ELSE "return",
                 blockNumber |-> blockNumber,
                 force |-> force,
                 update |-> "pending",
                 prune |-> IF store.subgraphPath # "" THEN "pending" ELSE "-",
                 error |-> "-"]
    /\ trace' = <<"updateSyncStatusCanonicalBlock">>
                    \o (IF store.subgraphPath # ""
                        THEN <<"pruneFrothyEntities">> ELSE <<>>)
    /\ UNCHANGED <<builderVars, codec, store>>

SyncCall ==
    \E blockNumber \in 1..MaxBlockNumber, force \in BOOLEAN :
        updateSyncStatusCanonicalBlock(blockNumber, force)

\* the update of the base indexer settles; nothing in the method waits for it
SyncUpdateSettles ==
    \E outcome \in Outcomes :
        /\ procs.update = "pending"
        /\ procs' = [procs EXCEPT !.update = outcome]
        /\ store' = IF outcome = "fulfilled"
                    THEN [store EXCEPT !.canonical = procs.blockNumber]
                    ELSE store
        /\ trace' = Append(trace, "update " \o outcome)
        /\ UNCHANGED <<builderVars, codec>>

\* await this.pruneFrothyEntities(blockNumber) resumes, or throws
pruneFrothyEntities ==
    \E outcome \in Outcomes :
        /\ procs.pc = "awaitPrune"
        /\ procs.prune = "pending"
        /\ procs' = [procs EXCEPT
               !.prune = outcome,
               !.pc = IF outcome = "fulfilled" THEN "return" ELSE "done",
               !.error = IF outcome = "rejected" THEN "pruneFrothyEntities" ELSE @]
        /\ store' = IF outcome = "fulfilled"
                    THEN [store EXCEPT !.pruned = procs.blockNumber]
                    ELSE store
        /\ trace' = IF outcome = "fulfilled"
                    THEN Append(trace, "prune fulfilled")
                    ELSE trace \o <<"prune rejected", "throws pruneFrothyEntities">>
        /\ UNCHANGED <<builderVars, codec>>

\* return syncStatus: the promise of the update, settled or not
SyncReturn ==
    /\ procs.pc = "return"
    /\ procs' = [procs EXCEPT !.pc = "done"]
    /\ trace' = Append(trace, "returns syncStatus")
    /\ UNCHANGED <<builderVars, codec, store>>

SyncNext ==
    \/ SyncCall
    \/ SyncUpdateSettles
    \/ pruneFrothyEntities
    \/ SyncReturn

SyncSpec == SyncInit /\ [][SyncNext]_vars

\* C27: for a subgraph watcher, pruning of frothy entities starts only after
\* the update of the canonical block of the sync status has fulfilled: never
\* while the update is pending, never when the update has failed.
C27_PruneAfterUpdate ==
    \A i \in PositionsOf("pruneFrothyEntities") :
        \E j \in 1..(i - 1) : trace[j] = "update fulfilled"

-----------------------------------------------------------------------------
\* A query method of the generated indexer, called by concurrent callers.
\* Every await is a point where the other caller may run, and every awaited
\* operation on the database or on the upstream server may reject. store
\* holds the generated method's query, the rows of its entity and counters
\* of the calls made; the rows are subject to the unique index that
\* Entity.addQuery declares for the entity.

\* calls of the method in one behaviour
MaxCalls == 3

Callers == {1, 2}
BlockHashes == {"0xb1", "0xb2"}
QueryParams == <<[name |-> "account", type |-> "string"]>>
\* the arguments that select the entity
Keys == [blockHash : BlockHashes, contractAddress : {"0xc"}, account : {"0xa"}]
\* mode and stateVariableType of the query the method is generated for
GeneratedQueries ==
    { [mode |-> "eth_call", stateVariableType |-> Undefined],
      [mode |-> "storage", stateVariableType |-> "Mapping"],
      [mode |-> "storage", stateVariableType |-> "ElementaryTypeName"],
      [mode |-> "storage", stateVariableType |-> "ArrayTypeName"] }

BlockNumberOf(blockHash) == IF blockHash = "0xb1" THEN 1 ELSE 2

\* JSONbigNative.stringify of the proof of a result, as the nullable column
\* holds it; a result without a proof is stored as NULL
StringifyProof(proof) == IF proof = <<>> THEN <<"NULL">> ELSE <<"json">> \o proof
\* JSON.parse of the stored text; JSON.parse(null) is null
ParseProof(text) == IF text = <<"NULL">> THEN <<"null">> ELSE Tail(text)

\* what the upstream server answers for the key: the result of the contract
\* call has no proof, the result of getStorageValue has one
UpstreamResult(query, key) ==
    [ value |-> <<"value at", key.blockHash, key.account>>,
      proof |-> IF query.mode = "storage"
                THEN <<"proof at", key.blockHash>> ELSE <<>> ]

\* the object passed to this._db.saveX
QueryRow(key, result) ==
    [ blockHash |-> key.blockHash,
      blockNumber |-> BlockNumberOf(key.blockHash),
      contractAddress |-> key.contractAddress,
      account |-> key.account,
      value |-> result.value,
      proof |-> StringifyProof(result.proof) ]

\* the rows that agree with the key on every column of the index
RowsOfKey(rows, key) ==
    LET columns == EntityQueryIndex(QueryParams).columns
    IN  {row \in rows : \A i \in 1..Len(columns) : row[columns[i]] = key[columns[i]]}

\* a db hit answered with the value of the latest block, not the stored one
QueryHitResult_Upstream(entity) ==
    [value |-> <<"value at", entity.blockHash, "latest">>,
     proof |-> ParseProof(entity.proof)]

\* db hit: { value: entity.value, proof: JSON.parse(entity.proof) }
QueryHitResult(entity) ==
    [value |-> entity.value, proof |-> ParseProof(entity.proof)]

NoQueryCall ==
    [pc |-> "idle", key |-> [blockHash |-> "0xb1", contractAddress |-> "0xc",
                             account |-> "0xa"],
     diff |-> FALSE, entity |-> <<>>, result |-> <<>>, upstream |-> 0, saves |-> 0]

QueryInit ==
    /\ queries = <<>>
    /\ subgraphEntities = <<>>
    /\ hasStateVariableElementaryType = FALSE
    /\ hasStateVariableMappingType = FALSE
    /\ indexerOut = <<>>
    /\ entities = <<>>
    /\ entityOut = <<>>
    /\ last = NoCall
    /\ codec = <<>>
    /\ \E query \in GeneratedQueries :
           store = [query |-> query, rows |-> {}, calls |-> 0, upstream |-> 0,
                    violations |-> 0]
    /\ procs = [p \in Callers |-> NoQueryCall]
    /\ trace = <<>>

\* the method is called; the parameter diff exists for state variables only
QueryCall(p, key, diff) ==
    /\ procs[p].pc \in {"idle", "returned", "thrown"}
    /\ store.calls < MaxCalls
    /\ store.query.stateVariableType = Undefined => diff = FALSE
    /\ procs' = [procs EXCEPT ![p] =
           [NoQueryCall EXCEPT !.pc = "get", !.key = key, !.diff = diff]]
    /\ store' = [store EXCEPT !.calls = @ + 1]
    /\ UNCHANGED <<builderVars, codec, trace>>

\* const entity = await this._db.getX({...}); if (entity) return {...}
QueryDbGet(p) ==
    \E outcome \in Outcomes :
        /\ procs[p].pc = "get"
        /\ LET found == RowsOfKey(store.rows, procs[p].key)
           IN  procs' = [procs EXCEPT ![p] =
                   IF outcome = "rejected" THEN [@ EXCEPT !.pc = "thrown"]
                   ELSE IF found # {}
                   THEN LET entity == CHOOSE row \in found : TRUE
                        IN  [@ EXCEPT !.pc = "returned",
                                      !.entity = <<entity>>,
                                      !.result = <<QueryHitResult(entity)>>]
                   ELSE [@ EXCEPT !.pc = "getBlock"]]
        /\ UNCHANGED <<builderVars, codec, store, trace>>

\* await this._ethClient.getBlockByHash(blockHash)
QueryGetBlock(p) ==
    \E outcome \in Outcomes :
        /\ procs[p].pc = "getBlock"
        /\ procs' = [procs EXCEPT ![p] =
               IF outcome = "rejected" THEN [@ EXCEPT !.pc = "thrown", !.upstream = @ + 1]
               ELSE [@ EXCEPT !.pc = "fetch", !.upstream = @ + 1]]
        /\ store' = [store EXCEPT !.upstream = @ + 1]
        /\ UNCHANGED <<builderVars, codec, trace>>

\* await contract.x(..., { blockTag: blockHash }), or
\* await this._baseIndexer.getStorageValue(...)
QueryFetch(p) ==
    \E outcome \in Outcomes :
        /\ procs[p].pc = "fetch"
        /\ procs' = [procs EXCEPT ![p] =
               IF outcome = "rejected" THEN [@ EXCEPT !.pc = "thrown", !.upstream = @ + 1]
               ELSE [@ EXCEPT !.pc = "save", !.upstream = @ + 1,
                              !.result = <<UpstreamResult(store.query, procs[p].key)>>]]
        /\ store' = [store EXCEPT !.upstream = @ + 1]
        /\ UNCHANGED <<builderVars, codec, trace>>

\* await this._db.saveX({...}): the insert fails when a row of the same key
\* exists and the index is unique
QuerySave(p) ==
    \E outcome \in Outcomes :
        LET row == QueryRow(procs[p].key, procs[p].result[1])
            duplicate == /\ EntityQueryIndex(QueryParams).unique
                         /\ RowsOfKey(store.rows, procs[p].key) # {}
        IN  /\ procs[p].pc = "save"
            /\ duplicate => outcome = "rejected"
            /\ procs' = [procs EXCEPT ![p] =
                   IF outcome = "rejected" THEN [@ EXCEPT !.pc = "thrown", !.saves = @ + 1]
                   ELSE [@ EXCEPT !.pc = "saved", !.saves = @ + 1]]
            /\ store' = IF duplicate THEN [store EXCEPT !.violations = @ + 1]
                        ELSE IF outcome = "rejected" THEN store
                        ELSE [store EXCEPT !.rows = @ \union {row}]
            /\ UNCHANGED <<builderVars, codec, trace>>

\* after the save: createDiffStaged when diff is set, for a mapping or an
\* elementary state variable; for any other state variable the template
\* emits an assert on the undeclared name state, which throws; return result
QueryReturn(p) ==
    \E outcome \in Outcomes :
        LET type == store.query.stateVariableType
            staged == type \in {"Mapping", "ElementaryTypeName"} /\ procs[p].diff
        IN  /\ procs[p].pc = "saved"
            /\ ~staged => outcome = "fulfilled"
            /\ procs' = [procs EXCEPT ![p] =
                   IF type \notin {Undefined, "Mapping", "ElementaryTypeName"}
                   THEN [@ EXCEPT !.pc = "thrown"]
                   ELSE IF outcome = "rejected" THEN [@ EXCEPT !.pc = "thrown"]
                   ELSE [@ EXCEPT !.pc = "returned"]]
            /\ UNCHANGED <<builderVars, codec, store, trace>>

QueryNext ==
    \/ \E p \in Callers, key \in Keys, diff \in BOOLEAN : QueryCall(p, key, diff)
    \/ \E p \in Callers : QueryDbGet(p)
    \/ \E p \in Callers : QueryGetBlock(p)
    \/ \E p \in Callers : QueryFetch(p)
    \/ \E p \in Callers : QuerySave(p)
    \/ \E p \in Callers : QueryReturn(p)

QuerySpec == QueryInit /\ [][QueryNext]_vars

\* the proof a stored text stands for
ProofOfText(text) == IF text = <<"NULL">> THEN <<"null">> ELSE SubSeq(text, 2, Len(text))

\* C28: the query method is a read-through cache. A call that finds a row
\* for its key returns the value and the proof of that row, with no upstream
\* call and no save. A call that finds none never returns from the lookup:
\* it returns only after upstream calls and exactly one save, when the one
\* row of its key holds the value it returns; so the lookup of a later call
\* with that key finds the row.
C28_ReadThroughCache ==
    [][\A p \in Callers :
          procs'[p] # procs[p] =>
              LET key == procs[p].key
                  held == RowsOfKey(store.rows, key)
              IN  /\ (procs[p].pc = "get" /\ held # {} /\ procs'[p].pc # "thrown")
                         => /\ procs'[p].pc = "returned"
                            /\ \E row \in held :
                                   procs'[p].result =
                                       <<[value |-> row.value,
                                          proof |-> ProofOfText(row.proof)]>>
                            /\ store' = store
                            /\ procs'[p].upstream = 0
                            /\ procs'[p].saves = 0
                  /\ (procs[p].pc = "get" /\ held = {})
                         => procs'[p].pc \in {"getBlock", "thrown"}
                  /\ (procs[p].pc # "get" /\ procs'[p].pc = "returned")
                         => /\ procs'[p].upstream >= 1
                            /\ procs'[p].saves = 1
                            /\ Cardinality(held) = 1
                            /\ \A row \in held :
                                   /\ row.value = procs'[p].result[1].value
                                   /\ procs'[p].result[1].proof # <<>>
                                          => ProofOfText(row.proof)
                                                 = procs'[p].result[1].proof
      ]_vars

\* one caller has returned what it fetched and saved, the other has then
\* returned the stored row of the same key
C28_Witness ==
    /\ procs[1].pc = "returned"
    /\ procs[1].saves = 1
    /\ procs[2].pc = "returned"
    /\ procs[2].entity # <<>>
    /\ procs[2].key = procs[1].key
    /\ procs[2].result = procs[1].result
    /\ store.upstream = 2

\* C29: when calls with the same key interleave the entity of the key is
\* saved at most once: no save is made for a key that has a row, so the
\* unique index of the entity is never violated.
C29_SavedAtMostOnce == store.violations = 0

-----------------------------------------------------------------------------
\* The resolvers events, eventsInRange, getStateByCID and getState of the
\* generated server, called while the job runner saves blocks and states and
\* completes blocks. store holds the block progress of each block hash (none
\* while the block is unknown) and the saved states; procs is one call of a
\* resolver. The answers of getProcessedBlockCountForRange and getPrevState
\* come from the database layer: any pair of counts, any saved state of a
\* block not after the given one.

StateCIDs == {"cid1", "cid2"}
StateBlockHash(cid) == IF cid = "cid1" THEN "0xb1" ELSE "0xb2"

\* the State entity of a cid with its block relation, as the database holds them
StateOf(cid) ==
    [cid |-> cid, block |-> store.blocks[StateBlockHash(cid)][1]]

\* the events resolver with the test on the block alone
EventsBlockNotProcessed_Unknown(block) == block = <<>>

\* events: !block || !block.isComplete
EventsBlockNotProcessed(block) == block = <<>> \/ ~block[1].isComplete

\* eventsInRange: expected !== actual
RangeNotAvailable(counts) == counts.expected # counts.actual

\* getStateByCID, getState:
\* state && state.block.isComplete ? getResultState(state) : undefined
ResolverResultState(state) ==
    IF state # <<>> /\ state[1].block.isComplete
    THEN <<[cid |-> state[1].cid, blockHash |-> state[1].block.blockHash]>>
    ELSE <<>>

NoResolverCall ==
    [pc |-> "idle", resolver |-> "-", arg |-> <<>>, seen |-> <<>>,
     result |-> <<>>, error |-> "-"]

ResolverInit ==
    /\ queries = <<>>
    /\ subgraphEntities = <<>>
    /\ hasStateVariableElementaryType = FALSE
    /\ hasStateVariableMappingType = FALSE
    /\ indexerOut = <<>>
    /\ entities = <<>>
    /\ entityOut = <<>>
    /\ last = NoCall
    /\ codec = <<>>
    /\ store = [blocks |-> [blockHash \in BlockHashes |-> <<>>], states |-> {}]
    /\ procs = NoResolverCall
    /\ trace = <<>>

\* the job runner saves the block progress of a block, not complete
JobSaveBlock(blockHash) ==
    /\ store.blocks[blockHash] = <<>>
    /\ store' = [store EXCEPT !.blocks[blockHash] =
           <<[blockHash |-> blockHash, blockNumber |-> BlockNumberOf(blockHash),
              isComplete |-> FALSE]>>]
    /\ UNCHANGED <<builderVars, codec, procs, trace>>

\* a state of a saved block is saved
JobSaveState(cid) ==
    /\ store.blocks[StateBlockHash(cid)] # <<>>
    /\ cid \notin store.states
    /\ store' = [store EXCEPT !.states = @ \union {cid}]
    /\ UNCHANGED <<builderVars, codec, procs, trace>>

\* the last event of the block is processed: the block is complete
JobCompleteBlock(blockHash) ==
    /\ store.blocks[blockHash] # <<>>
    /\ ~store.blocks[blockHash][1].isComplete
    /\ store' = [store EXCEPT !.blocks[blockHash][1].isComplete = TRUE]
    /\ UNCHANGED <<builderVars, codec, procs, trace>>

\* a query reaches a resolver
ResolverCall(resolver, arg) ==
    /\ procs.pc \in {"idle", "returned", "thrown"}
    /\ procs' = [NoResolverCall EXCEPT !.pc = "await", !.resolver = resolver,
                                       !.arg = arg]
    /\ UNCHANGED <<builderVars, codec, store, trace>>

ResolverCalls ==
    \/ \E blockHash \in BlockHashes : ResolverCall("events", <<blockHash>>)
    \/ \E from \in 1..MaxBlockNumber, to \in 1..MaxBlockNumber :
           from <= to /\ ResolverCall("eventsInRange", <<from, to>>)
    \/ \E cid \in StateCIDs : ResolverCall("getStateByCID", <<cid>>)
    \/ \E blockHash \in BlockHashes : ResolverCall("getState", <<blockHash>>)

\* events: const block = await indexer.getBlockProgress(blockHash); throw
\* unless the block is known and complete
EventsGetBlockProgress ==
    \E outcome \in Outcomes :
        LET block == store.blocks[procs.arg[1]]
        IN  /\ procs.pc = "await"
            /\ procs.resolver = "events"
            /\ procs' =
                   IF outcome = "rejected"
                   THEN [procs EXCEPT !.pc = "thrown", !.error = "getBlockProgress"]
                   ELSE IF EventsBlockNotProcessed(block)
                   THEN [procs EXCEPT !.pc = "thrown", !.seen = <<block>>,
                                      !.error = "not processed yet"]
                   ELSE [procs EXCEPT !.pc = "awaitEvents", !.seen = <<block>>]
            /\ UNCHANGED <<builderVars, codec, store, trace>>

\* eventsInRange: const { expected, actual } = await
\* indexer.getProcessedBlockCountForRange(...); throw when they differ
EventsInRangeGetCount ==
    \E outcome \in Outcomes, expected \in 0..MaxBlockNumber,
       actual \in 0..MaxBlockNumber :
        LET counts == [expected |-> expected, actual |-> actual]
        IN  /\ procs.pc = "await"
            /\ procs.resolver = "eventsInRange"
            /\ procs' =
                   IF outcome = "rejected"
                   THEN [procs EXCEPT !.pc = "thrown",
                                      !.error = "getProcessedBlockCountForRange"]
                   ELSE IF RangeNotAvailable(counts)
                   THEN [procs EXCEPT !.pc = "thrown", !.seen = <<counts>>,
                                      !.error = "range not available"]
                   ELSE [procs EXCEPT !.pc = "awaitEvents", !.seen = <<counts>>]
            /\ UNCHANGED <<builderVars, codec, store, trace>>

\* const events = await indexer.getEventsByFilter(...), or
\* await indexer.getEventsInRange(...); return events.map(...)
ResolverGetEvents ==
    \E outcome \in Outcomes :
        /\ procs.pc = "awaitEvents"
        /\ procs' =
               IF outcome = "rejected"
               THEN [procs EXCEPT !.pc = "thrown", !.error = "getEvents"]
               ELSE [procs EXCEPT !.pc = "returned",
                                  !.result = <<"events of">> \o procs.arg]
        /\ UNCHANGED <<builderVars, codec, store, trace>>

\* getStateByCID: const state = await indexer.getStateByCID(cid)
GetStateByCID ==
    \E outcome \in Outcomes :
        LET state == IF procs.arg[1] \in store.states
                     THEN <<StateOf(procs.arg[1])>> ELSE <<>>
        IN  /\ procs.pc = "await"
            /\ procs.resolver = "getStateByCID"
            /\ procs' =
                   IF outcome = "rejected"
                   THEN [procs EXCEPT !.pc = "thrown", !.error = "getStateByCID"]
                   ELSE [procs EXCEPT !.pc = "returned", !.seen = state,
                                      !.result = ResolverResultState(state)]
            /\ UNCHANGED <<builderVars, codec, store, trace>>

\* getState: const state = await indexer.getPrevState(blockHash, ...)
GetState ==
    /\ procs.pc = "await"
    /\ procs.resolver = "getState"
    /\ \E outcome \in Outcomes :
        \E state \in {<<>>} \union
                     { <<StateOf(cid)>> : cid \in
                         { c \in store.states :
                             BlockNumberOf(StateBlockHash(c))
                                 <= BlockNumberOf(procs.arg[1]) } } :
            /\ procs' =
                   IF outcome = "rejected"
                   THEN [procs EXCEPT !.pc = "thrown", !.error = "getPrevState"]
                   ELSE [procs EXCEPT !.pc = "returned", !.seen = state,
                                      !.result = ResolverResultState(state)]
            /\ UNCHANGED <<builderVars, codec, store, trace>>

ResolverNext ==
    \/ \E blockHash \in BlockHashes : JobSaveBlock(blockHash)
    \/ \E cid \in StateCIDs : JobSaveState(cid)
    \/ \E blockHash \in BlockHashes : JobCompleteBlock(blockHash)
    \/ ResolverCalls
    \/ EventsGetBlockProgress
    \/ EventsInRangeGetCount
    \/ ResolverGetEvents
    \/ GetStateByCID
    \/ GetState

ResolverSpec == ResolverInit /\ [][ResolverNext]_vars

\* C30: the events query returns the events of a block only when the block
\* is known and complete, and throws when the block it finds is unknown or
\* not complete; eventsInRange goes on to the events only when the expected
\* and the actual count of processed blocks are equal, and throws when they
\* differ; getState and getStateByCID return a state only when the block of
\* the state is complete, and nothing for a state whose block is not.
C30_OnlyProcessedBlocks ==
    /\ (procs.resolver = "events" /\ procs.pc \in {"awaitEvents", "returned"})
           => /\ store.blocks[procs.arg[1]] # <<>>
              /\ store.blocks[procs.arg[1]][1].isComplete
    /\ (procs.resolver = "events" /\ procs.seen # <<>>
            /\ (procs.seen[1] = <<>> \/ ~procs.seen[1][1].isComplete))
           => /\ procs.pc = "thrown"
              /\ procs.error = "not processed yet"
              /\ procs.result = <<>>
    /\ (procs.resolver = "eventsInRange"
            /\ procs.pc \in {"awaitEvents", "returned"})
           => /\ procs.seen # <<>>
              /\ procs.seen[1].expected = procs.seen[1].actual
    /\ (procs.resolver = "eventsInRange" /\ procs.seen # <<>>
            /\ procs.seen[1].expected # procs.seen[1].actual)
           => /\ procs.pc = "thrown"
              /\ procs.error = "range not available"
              /\ procs.result = <<>>
    /\ (procs.resolver \in {"getState", "getStateByCID"} /\ procs.result # <<>>)
           => /\ procs.pc = "returned"
              /\ procs.result[1].cid \in store.states
              /\ procs.result[1].blockHash = StateBlockHash(procs.result[1].cid)
              /\ store.blocks[procs.result[1].blockHash][1].isComplete
    /\ (procs.resolver \in {"getState", "getStateByCID"} /\ procs.seen # <<>>
            /\ ~procs.seen[1].block.isComplete)
           => procs.result = <<>>

\* the events query has thrown for a block that is saved and not complete,
\* while a state of that block is saved
C30_Witness ==
    /\ procs.resolver = "events"
    /\ procs.pc = "thrown"
    /\ procs.error = "not processed yet"
    /\ procs.seen # <<>>
    /\ procs.seen[1] # <<>>
    /\ ~store.blocks[procs.arg[1]][1].isComplete
    /\ \E cid \in store.states : StateBlockHash(cid) = procs.arg[1]

====
